---- MODULE Spec2Model ----
(***************************************************************************)
(* A model of k8s-nft-npc: the reference-tracking engine and event         *)
(* coordinator of package nftctrl (pod.go, ns.go, nwp.go), the dual-family *)
(* ruleset transaction of package nfds it stages into, and the Range Set   *)
(* of package ranges.                                                      *)
(*                                                                         *)
(* The controller is one record c:                                         *)
(*   c.namespaces, c.pods, c.nwps, c.rules   the four maps of Controller   *)
(*   c.chains, c.sets                        the ruleset the staged        *)
(*                                           operations describe           *)
(*   c.staged                                the operations staged by the  *)
(*                                           handler that is running       *)
(* Go pointers are the keys of the objects they point to: a *Pod is its    *)
(* cache.ObjectName, a *Policy likewise, a *Rule is <<policy, dir, i>>,    *)
(* a *nfds.Chain or *nfds.Set is its name, a *nfds.Rule is the rule.       *)
(***************************************************************************)
EXTENDS Integers, Sequences, FiniteSets, TLC

VARIABLES namespaces, pods, nwps, rules, chains, sets, rset, rref,
          eqA, eqB, eqResult,
          listed, initialList, pending, adding, updates, q, dirty, waiting,
          wpc, witem, mpc, txn, commits, processed, flushErr,
          signal, shutDown, lastNwp, lastErr, lastEvents,
          portsCall, blocksCall, splitCall, nameCall, rangeCall, keyCall

vars == <<namespaces, pods, nwps, rules, chains, sets, rset, rref,
          eqA, eqB, eqResult,
          listed, initialList, pending, adding, updates, q, dirty, waiting,
          wpc, witem, mpc, txn, commits, processed, flushErr,
          signal, shutDown, lastNwp, lastErr, lastEvents,
          portsCall, blocksCall, splitCall, nameCall, rangeCall, keyCall>>

ctrlVars == <<namespaces, pods, nwps, rules, chains, sets>>

rangeVars == <<rset, rref, rangeCall>>

eqVars == <<eqA, eqB, eqResult>>

\* The variables the controller's handlers leave alone, and those the Range
\* Set's operations leave alone.
\* The process of main.go: the informers' handlers, the work queue, the
\* tracker of the initial list, the worker, main, and the transaction.
informerVars == <<listed, initialList, pending, adding, updates>>

queueVars == <<q, dirty, waiting>>

workerVars == <<wpc, witem, mpc, txn, commits, processed, flushErr>>

\* The context of main is cancelled; the queue is shut down.
stopVars == <<signal, shutDown>>

mainVars == <<informerVars, queueVars, workerVars, stopVars>>

\* The last call of classifyPorts, of the ipBlock part of createPeers, of
\* splitVals and of the functions that name chains and sets: its arguments
\* and what it returned.
pureVars == <<portsCall, blocksCall, splitCall, nameCall, keyCall>>

\* The policy object last delivered to SetNetworkPolicy by the driver of
\* the rule compiler, what SetNetworkPolicy returned for it and the events
\* it recorded.
callVars == <<lastNwp, lastErr, lastEvents, pureVars>>

besideMain == <<ctrlVars, rangeVars, eqVars, callVars>>

besideEq == <<ctrlVars, rangeVars, mainVars, callVars>>

besideCtrl == <<rangeVars, eqVars, mainVars, callVars>>

besideRanges == <<ctrlVars, eqVars, mainVars, callVars>>

-----------------------------------------------------------------------------
(* Bounds of the model. *)

\* The integer domain of the Range Set is 0..RangeMax.
RangeMax == 5

\* The events the informers deliver after the initial lists.
MaxUpdates == 2

\* The bits of an address of an ipBlock: an address is a number below
\* 2^AddrBits, and an increment that carries out of its bytes wraps there.
AddrBits == 2

-----------------------------------------------------------------------------
(* Values. *)

None == <<>>

Some(x) == <<x>>

MapPut(f, k, v) == [x \in (DOMAIN f) \cup {k} |-> IF x = k THEN v ELSE f[x]]

MapDel(f, k) == [x \in (DOMAIN f) \ {k} |-> f[x]]

EmptyMap == [x \in {} |-> x]

RECURSIVE SeqOf(_)
\* The elements of a finite set, in one order: the order of a Go range over
\* a map whose iterations do not depend on each other.
SeqOf(S) ==
  IF S = {} THEN <<>>
  ELSE LET x == CHOOSE y \in S : TRUE IN <<x>> \o SeqOf(S \ {x})

\* The orders in which a Go range may visit the keys S.
Orders(S) ==
  {o \in [1..Cardinality(S) -> S] : \A i, j \in DOMAIN o : i # j => o[i] # o[j]}

IPPROTO_TCP == 6

IPPROTO_UDP == 17

IPPROTO_SCTP == 132

MaxUint16 == 65535

\* Names of chains and sets: <<kind, object, direction, rule index>>.
NoKey == <<"", "">>

NoName == <<"nil", NoKey, "", 0>>

vmapIng == <<"vmap", NoKey, "ing", 0>>

vmapEg == <<"vmap", NoKey, "eg", 0>>

PodChainName(id, dir) == <<"pod", id, dir, 0>>

PolChainName(ns, name, dir) == <<"pol", <<ns, name>>, dir, 0>>

\* labels.Selector: labels.Nothing(), or a conjunction of key=value
\* requirements (none: labels.Everything()).
Nothing == [nothing |-> TRUE, reqs |-> {}]

Everything == [nothing |-> FALSE, reqs |-> {}]

\* metav1.LabelSelectorAsSelector: nil gives Nothing, an empty selector
\* Everything, matchLabels the conjunction of its pairs.
LabelSelectorAsSelector(ls) ==
  IF ls = None THEN Nothing ELSE [nothing |-> FALSE, reqs |-> ls[1]]

\* A requirement that labels.NewRequirement rejects: its key is empty.
BadLabel == <<"", "x">>

\* The error of metav1.LabelSelectorAsSelector: a selector with a
\* requirement that is rejected does not convert.
LabelSelectorErr(ls) == ls # None /\ \E r \in ls[1] : r[1] = ""

\* labels.Selector.Matches on a label map (a set of <<key, value>>).
SelMatches(sel, labels) == ~sel.nothing /\ sel.reqs \subseteq labels

-----------------------------------------------------------------------------
(* package nfds: the staged ruleset. *)

Stage(c, op) == [c EXCEPT !.staged = Append(@, op)]

AddChain(c, name) ==
  Stage([c EXCEPT !.chains =
           IF name \in DOMAIN @ THEN @ ELSE MapPut(@, name, <<>>)],
        <<"AddChain", name>>)

DelChain(c, name) ==
  Stage([c EXCEPT !.chains = MapDel(@, name)], <<"DelChain", name>>)

AddRule(c, r) ==
  Stage([c EXCEPT !.chains =
           IF r.Chain \in DOMAIN @
           THEN [@ EXCEPT ![r.Chain] = Append(@, r)] ELSE @],
        <<"AddRule", r>>)

\* InsertRule placing the rule after the rules of the chain, as AddRule does.
InsertRuleAtEnd(c, r) ==
  Stage([c EXCEPT !.chains =
           IF r.Chain \in DOMAIN @
           THEN [@ EXCEPT ![r.Chain] = Append(@, r)] ELSE @],
        <<"InsertRule", r>>)

InsertRule(c, r) ==
  Stage([c EXCEPT !.chains =
           IF r.Chain \in DOMAIN @
           THEN [@ EXCEPT ![r.Chain] = <<r>> \o @] ELSE @],
        <<"InsertRule", r>>)

RECURSIVE RemoveFirst(_, _)
RemoveFirst(s, x) ==
  IF s = <<>> THEN <<>>
  ELSE IF Head(s) = x THEN Tail(s) ELSE <<Head(s)>> \o RemoveFirst(Tail(s), x)

DelRule(c, r) ==
  Stage([c EXCEPT !.chains =
           IF r.Chain \in DOMAIN @
           THEN [@ EXCEPT ![r.Chain] = RemoveFirst(@, r)] ELSE @],
        <<"DelRule", r>>)

\* The elements of a sequence.
Range(s) == {s[i] : i \in DOMAIN s}

AddSet(c, name, elems) ==
  Stage([c EXCEPT !.sets = MapPut(@, name, Range(elems))],
        <<"AddSet", name, elems>>)

DelSet(c, name) ==
  Stage([c EXCEPT !.sets = MapDel(@, name)], <<"DelSet", name>>)

\* The elements of a set are what the staged additions and deletions leave.
\* An element is found by its key: a deletion removes what is stored under
\* the key, whatever its value. An addition under a key that is present with
\* another value (a verdict map, two pods with one address) leaves both
\* staged; which of them the kernel keeps is not decided by this code. The
\* addresses of the model are IPv4, so the v4 half of every set has the
\* elements and the v6 half none.
SetAddElements(c, name, elems) ==
  Stage([c EXCEPT !.sets =
           IF name \in DOMAIN @
           THEN [@ EXCEPT ![name] = @ \cup Range(elems)] ELSE @],
        <<"SetAddElements", name, elems>>)

SetDeleteElements(c, name, elems) ==
  Stage([c EXCEPT !.sets =
           IF name \in DOMAIN @
           THEN [@ EXCEPT ![name] =
                   {e \in @ : \A d \in Range(elems) : d.Key # e.Key}]
           ELSE @],
        <<"SetDeleteElements", name, elems>>)

\* The key and data lengths of a set, in bytes, of its v4 and of its v6
\* instance; 0 is the length of a type that is not set and of a verdict.
SetType(key, key6, data, data6) ==
  [KeyBytes |-> key, KeyBytes6 |-> key6, DataBytes |-> data, DataBytes6 |-> data6]

RECURSIVE splitLoop(_, _, _)
\* splitVals lines 111-130: every element by the length of its key, if
\* the key types differ in length, and of its data, if the data types do.
splitLoop(s, vals, acc) ==
  IF vals = <<>> \/ acc.panic THEN acc
  ELSE LET val == Head(vals)
           a1 == IF s.KeyBytes6 = s.KeyBytes THEN acc
                 ELSE IF val.KeyLen = s.KeyBytes6
                 THEN [acc EXCEPT !.vals6 = Append(@, val)]
                 ELSE IF val.KeyLen = s.KeyBytes
                 THEN [acc EXCEPT !.vals4 = Append(@, val)]
                 ELSE [acc EXCEPT !.panic = TRUE]
           a2 == IF s.DataBytes = s.DataBytes6 \/ a1.panic THEN a1
                 ELSE IF val.ValLen = s.DataBytes6
                 THEN [a1 EXCEPT !.vals6 = Append(@, val)]
                 ELSE IF val.ValLen = s.DataBytes
                 THEN [a1 EXCEPT !.vals4 = Append(@, val)]
                 ELSE [a1 EXCEPT !.panic = TRUE]
       IN splitLoop(s, Tail(vals), a2)

\* Conn.splitVals: the elements for the v4 and for the v6 instance of the
\* set, or a panic.
splitVals(s, vals) ==
  IF s.KeyBytes6 = s.KeyBytes /\ s.DataBytes = s.DataBytes6
  THEN [vals4 |-> vals, vals6 |-> vals, panic |-> FALSE]
  ELSE splitLoop(s, vals, [vals4 |-> <<>>, vals6 |-> <<>>, panic |-> FALSE])

-----------------------------------------------------------------------------
(* exprs.go: the expression sequences the model tells apart. *)

\* verdict and its jump target; the named set looked up; the elements of the
\* anonymous set looked up (the set lives and dies with its rule); the
\* further matches (connection state, port and protocol).
NoExpr ==
  [verdict |-> "", target |-> NoName, lookup |-> NoName, anon |-> <<>>,
   match |-> <<>>]

rejectAdministrative == [NoExpr EXCEPT !.verdict = "reject"]

VerdictJump(chain) == [NoExpr EXCEPT !.verdict = "jump", !.target = chain]

VerdictReturn == [NoExpr EXCEPT !.verdict = "return"]

\* load IP, [lookup in a set], port and protocol expressions, accept.
lookupAccept(set, anon, match) ==
  [NoExpr EXCEPT !.verdict = "accept", !.lookup = set, !.anon = anon,
                 !.match = match]

-----------------------------------------------------------------------------
(* controller.go *)

\* objectID of an object whose namespace and name fit in 128 bytes: the
\* two joined, which is the pair here.
objectID(ns, name) == <<ns, name>>

-----------------------------------------------------------------------------
(* nwp.go: PodSelector.Matches *)

\* Matches without the confinement of a selector that has no
\* namespaceSelector to the policy's own namespace.
MatchesAnyNamespace(sel, pm, selNs, nss) ==
  IF pm.Namespace \notin DOMAIN nss THEN FALSE
  ELSE IF sel.NamespaceSelector # Nothing
          /\ ~SelMatches(sel.NamespaceSelector, nss[pm.Namespace].Labels)
       THEN FALSE
  ELSE IF ~SelMatches(sel.PodSelector, pm.Labels) THEN FALSE
  ELSE TRUE

Matches(sel, pm, selNs, nss) ==
  IF sel.NamespaceSelector = Nothing /\ selNs # pm.Namespace THEN FALSE
  ELSE IF pm.Namespace \notin DOMAIN nss THEN FALSE
  ELSE IF sel.NamespaceSelector # Nothing
          /\ ~SelMatches(sel.NamespaceSelector, nss[pm.Namespace].Labels)
       THEN FALSE
  ELSE IF ~SelMatches(sel.PodSelector, pm.Labels) THEN FALSE
  ELSE TRUE

-----------------------------------------------------------------------------
(* pod.go *)

vmapElements(pm, chain) ==
  [i \in 1..Len(pm.IPs) |-> [Key |-> pm.IPs[i], Chain |-> chain]]

ipElements(pm) == [i \in 1..Len(pm.IPs) |-> [Key |-> pm.IPs[i]]]

RECURSIVE namedPortElementsOfIP(_, _, _)
\* The inner loop of namedPortElements: the requests nms, for one address.
namedPortElementsOfIP(pm, ip, nms) ==
  IF nms = <<>> THEN <<>>
  ELSE LET nm == Head(nms)
           rest == namedPortElementsOfIP(pm, ip, Tail(nms))
       IN IF nm.PortName \notin DOMAIN pm.NamedPorts
             \/ pm.NamedPorts[nm.PortName].Protocol # nm.Protocol
          THEN rest
          ELSE <<[Key |-> <<nm.Protocol, pm.NamedPorts[nm.PortName].Port, ip>>]>>
               \o rest

RECURSIVE namedPortElementsOfIPs(_, _, _)
namedPortElementsOfIPs(pm, ips, nms) ==
  IF ips = <<>> THEN <<>>
  ELSE namedPortElementsOfIP(pm, Head(ips), nms)
       \o namedPortElementsOfIPs(pm, Tail(ips), nms)

namedPortElements(pm, nms) == namedPortElementsOfIPs(pm, pm.IPs, nms)

SemanticallyEqual(pm, pm2) ==
  IF pm.Namespace # pm2.Namespace \/ pm.ID # pm2.ID
     \/ Cardinality(pm.Labels) # Cardinality(pm2.Labels)
     \/ Len(pm.IPs) # Len(pm2.IPs)
     \/ Cardinality(DOMAIN pm.NamedPorts) # Cardinality(DOMAIN pm2.NamedPorts)
  THEN FALSE
  ELSE /\ \A l \in pm.Labels : l \in pm2.Labels
       /\ \A n \in DOMAIN pm.NamedPorts :
            n \in DOMAIN pm2.NamedPorts /\ pm2.NamedPorts[n] = pm.NamedPorts[n]
       /\ \A i \in DOMAIN pm.IPs : pm.IPs[i] \in Range(pm2.IPs)

\* The ingress half of addPodNWP without line 135, the policy's
\* back-reference to the pod: reference symmetry does not survive it.
addPodNWPIngressNoBackRef(c, nk, pk) ==
  LET pm == c.pods[pk]
      name == PodChainName(pm.ID, "ing")
      c1 == IF pm.ingressChain = NoName
            THEN LET a == AddChain(c, name)
                     b == AddRule(a, [Chain |-> name, Exprs |-> rejectAdministrative])
                     d == SetAddElements(b, vmapIng, vmapElements(pm, name))
                 IN [d EXCEPT !.pods[pk].ingressChain = name]
            ELSE c
      r == [Chain |-> c1.pods[pk].ingressChain,
            Exprs |-> VerdictJump(c1.nwps[nk].ingressChain)]
      c2 == InsertRule(c1, r)
  IN [c2 EXCEPT !.pods[pk].ingressPolicyRefs = MapPut(@, nk, r)]

\* addPodNWP, lines 108-136: the ingress half.
addPodNWPIngress(c, nk, pk) ==
  LET pm == c.pods[pk]
      name == PodChainName(pm.ID, "ing")
      c1 == IF pm.ingressChain = NoName
            THEN LET a == AddChain(c, name)
                     b == AddRule(a, [Chain |-> name, Exprs |-> rejectAdministrative])
                     d == SetAddElements(b, vmapIng, vmapElements(pm, name))
                 IN [d EXCEPT !.pods[pk].ingressChain = name]
            ELSE c
      r == [Chain |-> c1.pods[pk].ingressChain,
            Exprs |-> VerdictJump(c1.nwps[nk].ingressChain)]
      c2 == InsertRule(c1, r)
  IN [c2 EXCEPT !.pods[pk].ingressPolicyRefs = MapPut(@, nk, r),
                !.nwps[nk].podRefs = @ \cup {pk}]

\* addPodNWP, lines 137-166: the egress half.
addPodNWPEgress(c, nk, pk) ==
  LET pm == c.pods[pk]
      name == PodChainName(pm.ID, "eg")
      c1 == IF pm.egressChain = NoName
            THEN LET a == AddChain(c, name)
                     b == AddRule(a, [Chain |-> name, Exprs |-> rejectAdministrative])
                     d == SetAddElements(b, vmapEg, vmapElements(pm, name))
                 IN [d EXCEPT !.pods[pk].egressChain = name]
            ELSE c
      r == [Chain |-> c1.pods[pk].egressChain,
            Exprs |-> VerdictJump(c1.nwps[nk].egressChain)]
      c2 == InsertRule(c1, r)
  IN [c2 EXCEPT !.pods[pk].egressPolicyRefs = MapPut(@, nk, r),
                !.nwps[nk].podRefs = @ \cup {pk}]

\* The guard of addPodNWP without its namespace comparison: a policy would
\* reach into the pods of other namespaces.
nwpSelectsPodAnyNamespace(nwp, pm) == SelMatches(nwp.PodSelector, pm.Labels)

\* Whether policy nwp selects pod pm: the guard of addPodNWP.
nwpSelectsPod(nwp, pm) ==
  ~(nwp.Namespace # pm.Namespace \/ ~SelMatches(nwp.PodSelector, pm.Labels))

addPodNWP(c, nk, pk) ==
  IF ~nwpSelectsPod(c.nwps[nk], c.pods[pk]) THEN c
  ELSE LET c1 == IF c.nwps[nk].ingressChain # NoName
                 THEN addPodNWPIngress(c, nk, pk) ELSE c
       IN IF c1.nwps[nk].egressChain # NoName
          THEN addPodNWPEgress(c1, nk, pk) ELSE c1

\* removePodNWPIngress deleting the dispatch chain before the verdict-map
\* entries that jump to it.
removePodNWPIngressChainFirst(c, pk, nk) ==
  LET p == c.pods[pk]
      ok == nk \in DOMAIN p.ingressPolicyRefs
      c1 == IF ok THEN DelRule(c, p.ingressPolicyRefs[nk]) ELSE c
      c2 == IF ok THEN [c1 EXCEPT !.pods[pk].ingressPolicyRefs = MapDel(@, nk)]
            ELSE c1
      p2 == c2.pods[pk]
  IN IF DOMAIN p2.ingressPolicyRefs = {} /\ p2.ingressChain # NoName
     THEN [SetDeleteElements(DelChain(c2, p2.ingressChain), vmapIng,
                             vmapElements(p2, p2.ingressChain))
           EXCEPT !.pods[pk].ingressChain = NoName]
     ELSE c2

removePodNWPIngress(c, pk, nk) ==
  LET p == c.pods[pk]
      ok == nk \in DOMAIN p.ingressPolicyRefs
      c1 == IF ok THEN DelRule(c, p.ingressPolicyRefs[nk]) ELSE c
      c2 == IF ok THEN [c1 EXCEPT !.pods[pk].ingressPolicyRefs = MapDel(@, nk)]
            ELSE c1
      p2 == c2.pods[pk]
  IN IF DOMAIN p2.ingressPolicyRefs = {} /\ p2.ingressChain # NoName
     THEN [DelChain(SetDeleteElements(c2, vmapIng,
                                      vmapElements(p2, p2.ingressChain)),
                    p2.ingressChain)
           EXCEPT !.pods[pk].ingressChain = NoName]
     ELSE c2

removePodNWPEgress(c, pk, nk) ==
  LET p == c.pods[pk]
      ok == nk \in DOMAIN p.egressPolicyRefs
      c1 == IF ok THEN DelRule(c, p.egressPolicyRefs[nk]) ELSE c
      c2 == IF ok THEN [c1 EXCEPT !.pods[pk].egressPolicyRefs = MapDel(@, nk)]
            ELSE c1
      p2 == c2.pods[pk]
  IN IF DOMAIN p2.egressPolicyRefs = {} /\ p2.egressChain # NoName
     THEN [DelChain(SetDeleteElements(c2, vmapEg,
                                      vmapElements(p2, p2.egressChain)),
                    p2.egressChain)
           EXCEPT !.pods[pk].egressChain = NoName]
     ELSE c2

removePodNWP(c, pk, nk) == removePodNWPEgress(removePodNWPIngress(c, pk, nk), pk, nk)

ruleSelectsPod(c, r, pm) ==
  \/ \E i \in DOMAIN r.PodSelectors :
       Matches(r.PodSelectors[i], pm, r.Namespace, c.namespaces)
  \/ Len(r.PodSelectors) = 0 /\ r.NamedPortSet # NoName

\* The body of addPodRule's if, shared with reevalPodInRule: both
\* back-references and the elements of the rule's sets.
includePodInRule(c, rk, pk) ==
  LET r == c.rules[rk]
      pm == c.pods[pk]
      c1 == [c EXCEPT !.pods[pk].ruleRefs = @ \cup {rk},
                      !.rules[rk].podRefs = @ \cup {pk}]
      c2 == IF r.PodIPSet # NoName
            THEN SetAddElements(c1, r.PodIPSet, ipElements(pm)) ELSE c1
  IN IF r.NamedPortSet # NoName
     THEN SetAddElements(c2, r.NamedPortSet, namedPortElements(pm, r.NamedPortMeta))
     ELSE c2

addPodRule(c, rk, pk) ==
  IF ruleSelectsPod(c, c.rules[rk], c.pods[pk]) THEN includePodInRule(c, rk, pk)
  ELSE c

\* The elements a pod leaving a rule takes out of the rule's sets
\* (deletePod lines 238-243, reevalPodInRule lines 76-81).
dropPodElements(c, rk, pk) ==
  LET r == c.rules[rk]
      pm == c.pods[pk]
      c1 == IF r.PodIPSet # NoName
            THEN SetDeleteElements(c, r.PodIPSet, ipElements(pm)) ELSE c
  IN IF r.NamedPortSet # NoName
     THEN SetDeleteElements(c1, r.NamedPortSet,
                            namedPortElements(pm, r.NamedPortMeta))
     ELSE c1

RECURSIVE deletePodRuleRefs(_, _, _)
\* deletePod lines 236-244: the range over pm.ruleRefs.
deletePodRuleRefs(c, pk, rks) ==
  IF rks = <<>> THEN c
  ELSE LET rk == Head(rks)
           c1 == [c EXCEPT !.rules[rk].podRefs = @ \ {pk}]
       IN deletePodRuleRefs(dropPodElements(c1, rk, pk), pk, Tail(rks))

deletePod(c, pk) ==
  LET pm == c.pods[pk]
      c1 == IF pm.ingressChain # NoName
            THEN DelChain(SetDeleteElements(c, vmapIng,
                                            vmapElements(pm, pm.ingressChain)),
                          pm.ingressChain)
            ELSE c
      c2 == [c1 EXCEPT !.nwps =
               [k \in DOMAIN @ |->
                  IF k \in DOMAIN pm.ingressPolicyRefs
                  THEN [@[k] EXCEPT !.podRefs = @ \ {pk}] ELSE @[k]]]
      c3 == IF pm.egressChain # NoName
            THEN DelChain(SetDeleteElements(c2, vmapEg,
                                            vmapElements(pm, pm.egressChain)),
                          pm.egressChain)
            ELSE c2
      c4 == [c3 EXCEPT !.nwps =
               [k \in DOMAIN @ |->
                  IF k \in DOMAIN pm.egressPolicyRefs
                  THEN [@[k] EXCEPT !.podRefs = @ \ {pk}] ELSE @[k]]]
  IN deletePodRuleRefs(c4, pk, SeqOf(pm.ruleRefs))

parseProtocol(protocol) ==
  CASE protocol = "TCP" -> [proto |-> IPPROTO_TCP, ok |-> TRUE]
    [] protocol = "UDP" -> [proto |-> IPPROTO_UDP, ok |-> TRUE]
    [] protocol = "SCTP" -> [proto |-> IPPROTO_SCTP, ok |-> TRUE]
    [] OTHER -> [proto |-> 0, ok |-> FALSE]

RECURSIVE normalizeNamedPorts(_, _)
\* normalizePod lines 303-329: the container ports, in order, into the map.
normalizeNamedPorts(ports, acc) ==
  IF ports = <<>> THEN acc
  ELSE LET port == Head(ports)
           pp == IF port.Protocol # "" THEN parseProtocol(port.Protocol)
                 ELSE [proto |-> IPPROTO_TCP, ok |-> TRUE]
       IN IF port.Name = "" \/ port.ContainerPort > MaxUint16 \/ ~pp.ok
          THEN normalizeNamedPorts(Tail(ports), acc)
          ELSE normalizeNamedPorts(Tail(ports),
                 MapPut(acc, port.Name,
                        [Protocol |-> pp.proto, Port |-> port.ContainerPort % 65536]))

\* netip.ParseAddr on the address strings of the model: the address as a
\* 32-bit number, or None for a string that is no address.
ParseAddr(s) ==
  CASE s = "10.0.0.1" -> Some(167772161)
    [] s = "10.0.0.2" -> Some(167772162)
    [] OTHER -> None

RECURSIVE normalizeIPsAnyPhase(_, _)
\* normalizeIPs without the phase test of lines 289-291.
normalizeIPsAnyPhase(phase, ips) ==
  IF ips = <<>> THEN <<>>
  ELSE ParseAddr(Head(ips)) \o normalizeIPsAnyPhase(phase, Tail(ips))

RECURSIVE normalizeIPs(_, _)
\* normalizePod lines 288-298: the addresses of the pod, in order.
normalizeIPs(phase, ips) ==
  IF ips = <<>> THEN <<>>
  ELSE IF phase # "Running" /\ phase # "Pending"
  THEN normalizeIPs(phase, Tail(ips))
  ELSE ParseAddr(Head(ips)) \o normalizeIPs(phase, Tail(ips))

normalizePod(name, pod) ==
  [Namespace |-> name[1],
   ID |-> objectID(name[1], name[2]),
   Labels |-> pod.Labels,
   IPs |-> normalizeIPs(pod.Phase, pod.PodIPs),
   NamedPorts |-> normalizeNamedPorts(pod.Ports, EmptyMap),
   ingressChain |-> NoName,
   egressChain |-> NoName,
   ruleRefs |-> {},
   ingressPolicyRefs |-> EmptyMap,
   egressPolicyRefs |-> EmptyMap]

RECURSIVE rangeNwpsAddPodNWP(_, _, _)
\* SetPod lines 252-254: the range over c.nwps, visited in the order nks.
rangeNwpsAddPodNWP(c, nks, pk) ==
  IF nks = <<>> THEN c
  ELSE rangeNwpsAddPodNWP(addPodNWP(c, Head(nks), pk), Tail(nks), pk)

RECURSIVE rangeRulesAddPodRule(_, _, _)
\* SetPod lines 255-257: the range over c.rules.
rangeRulesAddPodRule(c, rks, pk) ==
  IF rks = <<>> THEN c
  ELSE rangeRulesAddPodRule(addPodRule(c, Head(rks), pk), Tail(rks), pk)

\* SetPod lines 251-258 and 271-277: wire up the new pod np. The object is
\* in the pod store from the start; nothing reads c.pods before line 258.
wirePod(c, name, np, ord) ==
  LET c0 == [c EXCEPT !.pods = MapPut(@, name, np)]
      c1 == rangeNwpsAddPodNWP(c0, ord, name)
  IN rangeRulesAddPodRule(c1, SeqOf(DOMAIN c1.rules), name)

\* pod is None (nil) or Some(pod); ord is the order in which the range
\* over c.nwps visits the policies.
SetPod(c, name, pod, ord) ==
  CASE name \notin DOMAIN c.pods /\ pod # None ->
         wirePod(c, name, normalizePod(name, pod[1]), ord)
    [] name \in DOMAIN c.pods /\ pod = None ->
         [deletePod(c, name) EXCEPT !.pods = MapDel(@, name)]
    [] name \in DOMAIN c.pods /\ pod # None ->
         LET np == normalizePod(name, pod[1])
         IN IF SemanticallyEqual(np, c.pods[name]) THEN c
            ELSE wirePod([deletePod(c, name) EXCEPT !.pods = MapDel(@, name)],
                         name, np, ord)
    [] OTHER -> c

-----------------------------------------------------------------------------
(* ns.go *)

NamespaceSemanticallyEqual(ns, ns2) ==
  IF ns.Name # ns2.Name \/ Cardinality(ns.Labels) # Cardinality(ns2.Labels)
  THEN FALSE
  ELSE \A l \in ns.Labels : l \in ns2.Labels

\* A re-evaluation that only ever adds the pod to the rule.
reevalPodInRuleAddOnly(c, pk, rk) ==
  IF ruleSelectsPod(c, c.rules[rk], c.pods[pk]) /\ pk \notin c.rules[rk].podRefs
  THEN includePodInRule(c, rk, pk) ELSE c

reevalPodInRule(c, pk, rk) ==
  LET isSelected == ruleSelectsPod(c, c.rules[rk], c.pods[pk])
      wasSelected == pk \in c.rules[rk].podRefs
  IN IF isSelected /\ ~wasSelected THEN includePodInRule(c, rk, pk)
     ELSE IF ~isSelected /\ wasSelected
     THEN dropPodElements([c EXCEPT !.rules[rk].podRefs = @ \ {pk},
                                    !.pods[pk].ruleRefs = @ \ {rk}],
                          rk, pk)
     ELSE c

\* updateNS lines 27-54: the pods to re-evaluate for rule r. old is None
\* (nil) or Some(namespace).
reevalPods(c, r, old, new) ==
  UNION {LET sel == r.PodSelectors[i]
             oldMatches == IF old # None
                           THEN SelMatches(sel.NamespaceSelector, old[1].Labels)
                           ELSE FALSE
             newMatches == SelMatches(sel.NamespaceSelector, new.Labels)
         IN IF sel.NamespaceSelector = Nothing THEN {}
            ELSE IF oldMatches = newMatches THEN {}
            ELSE IF oldMatches
            THEN {pod \in r.podRefs : c.pods[pod].Namespace = new.Name}
            ELSE {pod \in DOMAIN c.pods : c.pods[pod].Namespace = new.Name}
         : i \in DOMAIN r.PodSelectors}

RECURSIVE rangeReevalPods(_, _, _)
\* updateNS lines 55-57.
rangeReevalPods(c, pks, rk) ==
  IF pks = <<>> THEN c
  ELSE rangeReevalPods(reevalPodInRule(c, Head(pks), rk), Tail(pks), rk)

RECURSIVE rangeRulesUpdateNS(_, _, _, _)
\* updateNS line 26: the range over c.rules.
rangeRulesUpdateNS(c, rks, old, new) ==
  IF rks = <<>> THEN c
  ELSE rangeRulesUpdateNS(
         rangeReevalPods(c, SeqOf(reevalPods(c, c.rules[Head(rks)], old, new)),
                         Head(rks)),
         Tail(rks), old, new)

updateNS(c, old, new) == rangeRulesUpdateNS(c, SeqOf(DOMAIN c.rules), old, new)

\* ns is None (nil) or Some(namespace object).
\* SetNamespace with a delete case that re-evaluates the rules against the
\* namespace without labels before it frees the entry.
SetNamespaceReevalOnDelete(c, name, ns) ==
  CASE name \notin DOMAIN c.namespaces /\ ns # None ->
         LET new == [Name |-> name, Labels |-> ns[1].Labels]
         IN updateNS([c EXCEPT !.namespaces = MapPut(@, name, new)], None, new)
    [] name \in DOMAIN c.namespaces /\ ns = None ->
         LET syncedNS == c.namespaces[name]
             gone == [Name |-> name, Labels |-> {}]
             c1 == updateNS([c EXCEPT !.namespaces = MapPut(@, name, gone)],
                            Some(syncedNS), gone)
         IN [c1 EXCEPT !.namespaces = MapDel(@, name)]
    [] name \in DOMAIN c.namespaces /\ ns # None ->
         LET syncedNS == c.namespaces[name]
             newNS == [Name |-> name, Labels |-> ns[1].Labels]
         IN IF NamespaceSemanticallyEqual(syncedNS, newNS) THEN c
            ELSE updateNS([c EXCEPT !.namespaces = MapPut(@, name, newNS)],
                          Some(syncedNS), newNS)
    [] OTHER -> c

SetNamespace(c, name, ns) ==
  CASE name \notin DOMAIN c.namespaces /\ ns # None ->
         LET new == [Name |-> name, Labels |-> ns[1].Labels]
         IN updateNS([c EXCEPT !.namespaces = MapPut(@, name, new)], None, new)
    [] name \in DOMAIN c.namespaces /\ ns = None ->
         [c EXCEPT !.namespaces = MapDel(@, name)]
    [] name \in DOMAIN c.namespaces /\ ns # None ->
         LET syncedNS == c.namespaces[name]
             newNS == [Name |-> name, Labels |-> ns[1].Labels]
         IN IF NamespaceSemanticallyEqual(syncedNS, newNS) THEN c
            ELSE updateNS([c EXCEPT !.namespaces = MapPut(@, name, newNS)],
                          Some(syncedNS), newNS)
    [] OTHER -> c

-----------------------------------------------------------------------------
(* package ranges: the Range Set over a treemap from range start to range *)
(* end, and the per-element bitmap its fuzz test compares it with.        *)

Min(S) == CHOOSE x \in S : \A y \in S : x <= y

Max(S) == CHOOSE x \in S : \A y \in S : y <= x

\* treemap.LowerBound: an iterator at the first key not less than k; None
\* is the iterator past the end.
LowerBound(t, k) ==
  IF \E x \in DOMAIN t : x >= k THEN Some(Min({x \in DOMAIN t : x >= k}))
  ELSE None

\* Iterator.Prev, from a position that has a predecessor.
IterPrev(t, it) ==
  IF it = None THEN Some(Max(DOMAIN t))
  ELSE Some(Max({x \in DOMAIN t : x < it[1]}))

\* Iterator.Next, in the tree as it is when the iterator moves.
IterNext(t, it) ==
  IF \E x \in DOMAIN t : x > it[1] THEN Some(Min({x \in DOMAIN t : x > it[1]}))
  ELSE None

\* The first key of the tree is before the iterator.
HasPrev(t, it) == it = None \/ Min(DOMAIN t) < it[1]

RECURSIVE DelKeys(_, _)
DelKeys(t, keysToRemove) ==
  IF keysToRemove = <<>> THEN t
  ELSE DelKeys(MapDel(t, Head(keysToRemove)), Tail(keysToRemove))

\* A closest that does not step off its argument: Subtract would leave the
\* first point of the range it takes away covered.
closestSame(a, before) == a

\* defaultClosest.
closest(a, before) == IF before THEN a - 1 ELSE a + 1

\* A check that lets every range pass.
assertValidSkipped(a) == TRUE

assertValid(a) == ~(a.End < a.Start)

RECURSIVE SubtractLoop(_, _, _, _)
\* Subtract lines 77-92: the loop from iterator it on, then the removals.
SubtractLoop(t, it, a, keysToRemove) ==
  IF it = None THEN DelKeys(t, keysToRemove)
  ELSE IF a.End < it[1] THEN DelKeys(t, keysToRemove)
  ELSE LET t1 == IF a.End < t[it[1]]
                 THEN MapPut(t, closest(a.End, FALSE), t[it[1]]) ELSE t
       IN SubtractLoop(t1, IterNext(t1, it), a, Append(keysToRemove, it[1]))

Subtract(t, a) ==
  IF DOMAIN t = {} THEN t
  ELSE LET it == LowerBound(t, a.Start)
       IN IF HasPrev(t, it)
          THEN LET pv == IterPrev(t, it)
                   currentEnd == t[pv[1]]
                   t1 == MapPut(t, pv[1], closest(a.Start, TRUE))
               IN IF ~(t[pv[1]] < a.Start)
                  THEN IF a.End < currentEnd
                       THEN MapPut(t1, closest(a.End, FALSE), currentEnd)
                       ELSE SubtractLoop(t1, IterNext(t1, pv), a, <<>>)
                  ELSE SubtractLoop(t, IterNext(t, pv), a, <<>>)
          ELSE SubtractLoop(t, it, a, <<>>)

RECURSIVE AddLoop(_, _, _, _)
\* Add lines 119-134: the loop from iterator it on, the removals, the Set.
AddLoop(t, it, a, keysToRemove) ==
  IF it = None \/ (it # None /\ a.End < it[1])
  THEN MapPut(DelKeys(t, keysToRemove), a.Start, a.End)
  ELSE AddLoop(t, IterNext(t, it),
               IF a.End < t[it[1]] THEN [a EXCEPT !.End = t[it[1]]] ELSE a,
               Append(keysToRemove, it[1]))

Add(t, a) ==
  IF DOMAIN t = {} THEN MapPut(t, a.Start, a.End)
  ELSE LET it == LowerBound(t, a.Start)
       IN IF HasPrev(t, it)
          THEN LET pv == IterPrev(t, it)
               IN IF ~(t[pv[1]] < a.End) THEN t
                  ELSE IF ~(t[pv[1]] < a.Start)
                  THEN AddLoop(t, IterNext(t, pv), [a EXCEPT !.Start = pv[1]],
                               <<pv[1]>>)
                  ELSE AddLoop(t, IterNext(t, pv), a, <<>>)
          ELSE AddLoop(t, it, a, <<>>)

\* Ranges.Len.
RangesLen(t) == Cardinality(DOMAIN t)

\* The points of the intervals the iterator returns.
Covered(t) == UNION {k..t[k] : k \in DOMAIN t}

\* trivialRanges: the covered elements of the bitmap.
trivialAdd(covered, a) == covered \cup (a.Start..a.End)

trivialSubtract(covered, a) == covered \ (a.Start..a.End)

-----------------------------------------------------------------------------
(* nwp.go *)

NeedsInterval(nm) ==
  nm.Port # nm.EndPort /\ ~(nm.Port = 0 /\ nm.EndPort = MaxUint16)

AddrSpace == 2^AddrBits

\* netip.ParsePrefix on the prefix strings of the model: the pair of an
\* address and a length; a length above AddrBits does not parse. The
\* address is kept as written, bits beyond the length included.
ParsePrefix(s) ==
  IF s[1] \in 0..(AddrSpace - 1) /\ s[2] \in 0..AddrBits
  THEN Some([Addr |-> s[1], Bits |-> s[2]]) ELSE None

\* The number of addresses of a prefix.
PrefixSize(p) == 2^(AddrBits - p.Bits)

\* prefixToRange: from net.Masked().Addr() to netipx.PrefixLastIP(net).
prefixToRange(p) ==
  LET start == p.Addr - (p.Addr % PrefixSize(p))
  IN [Start |-> start, End |-> start + PrefixSize(p) - 1]

\* rangeToInterval: the start, and the end incremented byte by byte with
\* carry as the key of the interval end; the carry out of the first byte
\* is dropped.
rangeToInterval(p) ==
  <<[Key |-> p.Start, IntervalEnd |-> FALSE],
    [Key |-> (p.End + 1) % AddrSpace, IntervalEnd |-> TRUE]>>

RECURSIVE subtractExcepts(_, _)
\* createPeers lines 107-117: the except values that parse are subtracted
\* from the block, contained in the parent or not.
subtractExcepts(thisBlock, excepts) ==
  IF excepts = <<>> THEN thisBlock
  ELSE LET pExcl == ParsePrefix(Head(excepts))
       IN subtractExcepts(IF pExcl = None THEN thisBlock
                          ELSE Subtract(thisBlock, prefixToRange(pExcl[1])),
                          Tail(excepts))

RECURSIVE addItems(_, _)
\* createPeers lines 118-120: the ranges of the block, in the order of the
\* iterator, are added to the permitted ranges.
addItems(permitted, thisBlock) ==
  IF DOMAIN thisBlock = {} THEN permitted
  ELSE LET k == Min(DOMAIN thisBlock)
       IN addItems(Add(permitted, [Start |-> k, End |-> thisBlock[k]]),
                   MapDel(thisBlock, k))

\* createPeers lines 91-106: the peer is an ipBlock that is compiled: it
\* has no selector beside it and its CIDR parses.
validIPBlock(src) ==
  /\ src.IPBlock # None
  /\ src.NamespaceSelector = None
  /\ src.PodSelector = None
  /\ ParsePrefix(src.IPBlock[1].CIDR) # None

RECURSIVE peerSelectors(_)
\* createPeers lines 90-144: the compiled selectors of the peers, in order.
\* A peer that is an ipBlock with a selector beside it or with a CIDR that
\* does not parse, and a peer with a selector that does not convert, is
\* passed over.
peerSelectors(peers) ==
  IF peers = <<>> THEN <<>>
  ELSE LET src == Head(peers)
           rest == peerSelectors(Tail(peers))
           nsSel == LabelSelectorAsSelector(src.NamespaceSelector)
           podSel == LabelSelectorAsSelector(src.PodSelector)
       IN IF src.IPBlock # None /\ ~validIPBlock(src)
          THEN rest
          ELSE IF LabelSelectorErr(src.NamespaceSelector)
                  \/ LabelSelectorErr(src.PodSelector)
          THEN rest
          ELSE IF nsSel # Nothing \/ podSel # Nothing
          THEN <<[NamespaceSelector |-> nsSel,
                  PodSelector |-> IF podSel = Nothing THEN Everything
                                  ELSE podSel]>> \o rest
          ELSE rest

RECURSIVE peerIPBlocks(_, _)
\* createPeers lines 91-121: ipRangesPermitted after the peers, from the
\* ranges permitted so far.
peerIPBlocks(peers, permitted) ==
  IF peers = <<>> THEN permitted
  ELSE LET src == Head(peers)
       IN IF ~validIPBlock(src) THEN peerIPBlocks(Tail(peers), permitted)
          ELSE peerIPBlocks(
                 Tail(peers),
                 addItems(permitted,
                          subtractExcepts(
                            Add(EmptyMap,
                                prefixToRange(ParsePrefix(src.IPBlock[1].CIDR)[1])),
                            src.IPBlock[1].Except)))

RECURSIVE rangeElements(_)
\* createPeers lines 325-328: the elements of the permitted ranges, in the
\* order of the iterator.
rangeElements(t) ==
  IF DOMAIN t = {} THEN <<>>
  ELSE LET k == Min(DOMAIN t)
       IN rangeToInterval([Start |-> k, End |-> t[k]])
            \o rangeElements(MapDel(t, k))

RECURSIVE classifyPorts(_, _)
\* createPeers lines 146-201: acc.dynPorts and acc.portProtos.
classifyPorts(ports, acc) ==
  IF ports = <<>> THEN acc
  ELSE LET port == Head(ports)
           pp == IF port.Protocol # None THEN parseProtocol(port.Protocol[1])
                 ELSE [proto |-> IPPROTO_TCP, ok |-> TRUE]
           rest == Tail(ports)
       IN IF ~pp.ok THEN classifyPorts(rest, acc)
          ELSE IF port.Port = None
          THEN classifyPorts(rest,
                 [acc EXCEPT !.portProtos =
                    Append(@, [Protocol |-> pp.proto, Port |-> 0,
                               EndPort |-> MaxUint16])])
          ELSE IF port.Port[1].Type = "String"
          THEN classifyPorts(rest,
                 [acc EXCEPT !.dynPorts =
                    Append(@, [PortName |-> port.Port[1].StrVal,
                               Protocol |-> pp.proto])])
          ELSE IF port.Port[1].IntVal > MaxUint16 THEN classifyPorts(rest, acc)
          ELSE IF port.EndPort # None /\ port.EndPort[1] < port.Port[1].IntVal
          THEN classifyPorts(rest, acc)
          ELSE IF port.EndPort # None /\ port.EndPort[1] > MaxUint16
          THEN classifyPorts(rest, acc)
          ELSE classifyPorts(rest,
                 [acc EXCEPT !.portProtos =
                    Append(@, [Protocol |-> pp.proto,
                               Port |-> port.Port[1].IntVal % 65536,
                               EndPort |-> IF port.EndPort # None
                                           THEN port.EndPort[1] % 65536
                                           ELSE port.Port[1].IntVal % 65536])])

\* createPeers lines 269-277: the anonymous set of protocols and port
\* ranges: its key is the concatenation of protocol and port, 4 bytes
\* each; KeyType6 is not set.
protoPortSet == SetType(8, 0, 0, 0)

\* createPeers lines 278-291: its elements, one per numbered port range.
protoPortElems(portProtos) ==
  [i \in DOMAIN portProtos |->
     [Key |-> <<portProtos[i].Protocol, portProtos[i].Port>>,
      KeyEnd |-> <<portProtos[i].Protocol, portProtos[i].EndPort>>,
      KeyLen |-> 8, ValLen |-> 0]]

\* createPeers lines 293-306: the lookup in the anonymous set, which in the
\* table of each family is the instance of that family.
lookupSplit(sv) == <<"lookup", sv.vals4, sv.vals6>>

\* createPeers lines 248-310: the port and protocol expressions; a lookup
\* names the elements of the v4 and of the v6 instance of the anonymous
\* set that AddSet creates.
portProtoExprs(portProtos, nRanges, nSelectors) ==
  IF Len(portProtos) = 0 THEN <<>>
  ELSE IF Len(portProtos) = 1 /\ ~NeedsInterval(portProtos[1])
  THEN IF portProtos[1].Port # 0 \/ portProtos[1].EndPort # MaxUint16
       THEN <<"cmp", portProtos[1].Protocol, portProtos[1].Port>>
       ELSE <<"cmp", portProtos[1].Protocol>>
  ELSE IF nRanges > 0 \/ nSelectors > 0
  THEN lookupSplit(splitVals(protoPortSet, protoPortElems(portProtos)))
  ELSE <<>>

\* createPeers lines 203-365, after the peers and the ports have been
\* read: the sets and rules of the entry, and its Rule in the rule store.
createPeersRules(c, ch, sels, ipRangesPermitted, cl, ppe, ports, rk, nwpNamespace) ==
  LET namedPortSet == <<"namedports", rk[1], rk[2], rk[3]>>
      podIPSet == <<"podips", rk[1], rk[2], rk[3]>>
      named == Len(cl.dynPorts) > 0 /\ Len(sels) > 0
      meta == [Namespace |-> nwpNamespace,
               PodSelectors |-> sels,
               PodIPSet |-> NoName,
               NamedPortMeta |-> IF named THEN cl.dynPorts ELSE <<>>,
               NamedPortSet |-> IF named THEN namedPortSet ELSE NoName,
               podRefs |-> {}]
      c1 == IF named
            THEN AddRule(AddSet(c, namedPortSet, <<>>),
                         [Chain |-> ch,
                          Exprs |-> lookupAccept(namedPortSet, <<>>, <<"named">>)])
            ELSE c
      c2 == IF RangesLen(ipRangesPermitted) > 0
            THEN AddRule(c1, [Chain |-> ch,
                              Exprs |-> lookupAccept(NoName,
                                                     rangeElements(ipRangesPermitted),
                                                     ppe)])
            ELSE c1
      c3 == IF Len(sels) > 0
            THEN AddRule(AddSet(c2, podIPSet, <<>>),
                         [Chain |-> ch, Exprs |-> lookupAccept(podIPSet, <<>>, ppe)])
            ELSE c2
  IN IF Len(cl.portProtos) = 0 /\ Len(ports) > 0
     THEN [c1 EXCEPT !.rules = MapPut(@, rk, meta)]
     ELSE [c3 EXCEPT !.rules =
             MapPut(@, rk, IF Len(sels) > 0
                           THEN [meta EXCEPT !.PodIPSet = podIPSet] ELSE meta)]

\* createPeers lines 248-310, after the peers and the ports have been read.
createPeersPorts(c, ch, sels, ipRangesPermitted, cl, ports, rk, nwpNamespace) ==
  createPeersRules(c, ch, sels, ipRangesPermitted, cl,
                   portProtoExprs(cl.portProtos, RangesLen(ipRangesPermitted),
                                  Len(sels)),
                   ports, rk, nwpNamespace)

\* The rule compiled from one entry of the policy's ingress or egress list
\* into chain ch; rk = <<policy, dir, i>> is the rule and the prefix of
\* the names of its sets. The Rule is in the rule store from here on;
\* nothing reads c.rules before createNWP registers it.
createPeers(c, ch, peers, ports, rk, nwpNamespace) ==
  createPeersPorts(c, ch, peerSelectors(peers), peerIPBlocks(peers, EmptyMap),
                   classifyPorts(ports, [dynPorts |-> <<>>, portProtos |-> <<>>]),
                   ports, rk, nwpNamespace)

RECURSIVE rangePodsAddPodRule(_, _, _)
\* createNWP lines 410-412 and 437-439: the range over c.pods.
rangePodsAddPodRule(c, rk, pks) ==
  IF pks = <<>> THEN c
  ELSE rangePodsAddPodRule(addPodRule(c, rk, Head(pks)), rk, Tail(pks))

RECURSIVE createNWPIngressRules(_, _, _, _)
\* createNWP lines 405-415: the ingress rules from index i (from 0) on.
createNWPIngressRules(c, nwp, name, i) ==
  IF i >= Len(nwp.Ingress) THEN c
  ELSE LET rk == <<name, "ing", i>>
           c1 == createPeers(c, PolChainName(name[1], name[2], "ing"),
                             nwp.Ingress[i + 1].From, nwp.Ingress[i + 1].Ports,
                             rk, name[1])
           c2 == rangePodsAddPodRule(c1, rk, SeqOf(DOMAIN c1.pods))
       IN createNWPIngressRules(
            [c2 EXCEPT !.nwps[name].IngressRuleMeta = Append(@, rk)],
            nwp, name, i + 1)

RECURSIVE createNWPEgressRules(_, _, _, _)
\* createNWP lines 432-442: the egress rules from index i (from 0) on.
createNWPEgressRules(c, nwp, name, i) ==
  IF i >= Len(nwp.Egress) THEN c
  ELSE LET rk == <<name, "eg", i>>
           c1 == createPeers(c, PolChainName(name[1], name[2], "eg"),
                             nwp.Egress[i + 1].To, nwp.Egress[i + 1].Ports,
                             rk, name[1])
           c2 == rangePodsAddPodRule(c1, rk, SeqOf(DOMAIN c1.pods))
       IN createNWPEgressRules(
            [c2 EXCEPT !.nwps[name].EgressRuleMeta = Append(@, rk)],
            nwp, name, i + 1)

RECURSIVE rangePodsAddPodNWP(_, _, _)
\* createNWP lines 454-456: the range over c.pods.
rangePodsAddPodNWP(c, nk, pks) ==
  IF pks = <<>> THEN c
  ELSE rangePodsAddPodNWP(addPodNWP(c, nk, Head(pks)), nk, Tail(pks))

\* A nil error.
NoError == ""

\* createNWP lines 380-383: the error it returns, before anything is
\* created, for a policy whose pod selector does not convert.
createNWPErr(nwp) ==
  IF LabelSelectorErr(Some(nwp.PodSelector)) THEN "bad PodSelector" ELSE NoError

\* The Policy is in the policy store from the start; nothing reads c.nwps
\* before line 457.
createNWP(c, nwp, name) ==
  LET pm == [Namespace |-> name[1],
             Name |-> name[2],
             PodSelector |-> LabelSelectorAsSelector(Some(nwp.PodSelector)),
             IngressRuleMeta |-> <<>>,
             EgressRuleMeta |-> <<>>,
             ingressChain |-> NoName,
             egressChain |-> NoName,
             podRefs |-> {}]
      isIngress == Len(nwp.PolicyTypes) = 0 \/ "Ingress" \in Range(nwp.PolicyTypes)
      isEgress == "Egress" \in Range(nwp.PolicyTypes)
      ingChain == PolChainName(name[1], name[2], "ing")
      egChain == PolChainName(name[1], name[2], "eg")
      c0 == [c EXCEPT !.nwps = MapPut(@, name, pm)]
      c1 == IF isIngress
            THEN [AddRule(createNWPIngressRules(AddChain(c0, ingChain), nwp, name, 0),
                          [Chain |-> ingChain, Exprs |-> VerdictReturn])
                  EXCEPT !.nwps[name].ingressChain = ingChain]
            ELSE c0
      c2 == IF isEgress
            THEN [AddRule(createNWPEgressRules(AddChain(c1, egChain), nwp, name, 0),
                          [Chain |-> egChain, Exprs |-> VerdictReturn])
                  EXCEPT !.nwps[name].egressChain = egChain]
            ELSE c1
  IN IF createNWPErr(nwp) # NoError THEN c
     ELSE rangePodsAddPodNWP(c2, name, SeqOf(DOMAIN c2.pods))

RECURSIVE deleteRulesKeepRefs(_, _)
\* deleteRules without lines 463-465: the pods keep the rule in ruleRefs.
deleteRulesKeepRefs(c, rm) ==
  IF rm = <<>> THEN c
  ELSE LET rk == Head(rm)
           r == c.rules[rk]
           c2 == IF r.NamedPortSet # NoName THEN DelSet(c, r.NamedPortSet) ELSE c
           c3 == IF r.PodIPSet # NoName THEN DelSet(c2, r.PodIPSet) ELSE c2
       IN deleteRulesKeepRefs([c3 EXCEPT !.rules = MapDel(@, rk)], Tail(rm))

RECURSIVE deleteRules(_, _)
deleteRules(c, rm) ==
  IF rm = <<>> THEN c
  ELSE LET rk == Head(rm)
           r == c.rules[rk]
           c1 == [c EXCEPT !.pods =
                    [p \in DOMAIN @ |->
                       IF p \in r.podRefs
                       THEN [@[p] EXCEPT !.ruleRefs = @ \ {rk}] ELSE @[p]]]
           c2 == IF r.NamedPortSet # NoName THEN DelSet(c1, r.NamedPortSet) ELSE c1
           c3 == IF r.PodIPSet # NoName THEN DelSet(c2, r.PodIPSet) ELSE c2
       IN deleteRules([c3 EXCEPT !.rules = MapDel(@, rk)], Tail(rm))

RECURSIVE rangePodRefsRemovePodNWP(_, _, _)
\* deleteNWP lines 477-479: the range over pm.podRefs.
rangePodRefsRemovePodNWP(c, pks, nk) ==
  IF pks = <<>> THEN c
  ELSE rangePodRefsRemovePodNWP(removePodNWP(c, Head(pks), nk), Tail(pks), nk)

deleteNWP(c, name) ==
  LET pm == c.nwps[name]
      c1 == rangePodRefsRemovePodNWP(c, SeqOf(pm.podRefs), name)
      c2 == IF pm.ingressChain # NoName THEN DelChain(c1, pm.ingressChain) ELSE c1
      c3 == IF pm.egressChain # NoName THEN DelChain(c2, pm.egressChain) ELSE c2
      c4 == deleteRules(deleteRules(c3, pm.IngressRuleMeta), pm.EgressRuleMeta)
  IN [c4 EXCEPT !.nwps = MapDel(@, name)]

\* nwp is None (nil) or Some(policy object).
SetNetworkPolicy(c, name, nwp) ==
  CASE name \notin DOMAIN c.nwps /\ nwp # None -> createNWP(c, nwp[1], name)
    [] name \in DOMAIN c.nwps /\ nwp = None -> deleteNWP(c, name)
    [] name \in DOMAIN c.nwps /\ nwp # None ->
         createNWP(deleteNWP(c, name), nwp[1], name)
    [] OTHER -> c

\* What SetNetworkPolicy returns: nil on every path, line 507; what
\* createNWP returns is dropped, lines 495 and 503.
SetNetworkPolicyErr(c, name, nwp) == NoError

RECURSIVE exceptEvents(_, _)
\* createPeers lines 107-116: the events for the except values of a block.
exceptEvents(p, excepts) ==
  IF excepts = <<>> THEN <<>>
  ELSE LET pExcl == ParsePrefix(Head(excepts))
           r == prefixToRange(p)
       IN (IF pExcl = None THEN <<"InvalidPeer">>
           ELSE IF prefixToRange(pExcl[1]).Start \notin r.Start..r.End
                   \/ prefixToRange(pExcl[1]).End \notin r.Start..r.End
           THEN <<"SuspiciousIPBlock">>
           ELSE <<>>) \o exceptEvents(p, Tail(excepts))

RECURSIVE peerEvents(_)
\* createPeers lines 90-131: the events recorded for the peers.
peerEvents(peers) ==
  IF peers = <<>> THEN <<>>
  ELSE LET src == Head(peers)
       IN (IF src.IPBlock # None /\ ~validIPBlock(src) THEN <<"InvalidPeer">>
           ELSE (IF src.IPBlock # None
                 THEN exceptEvents(ParsePrefix(src.IPBlock[1].CIDR)[1],
                                   src.IPBlock[1].Except)
                 ELSE <<>>)
                \o (IF LabelSelectorErr(src.NamespaceSelector)
                       \/ LabelSelectorErr(src.PodSelector)
                    THEN <<"InvalidPeer">> ELSE <<>>))
          \o peerEvents(Tail(peers))

RECURSIVE portEvents(_)
\* createPeers lines 148-201: the events recorded for the ports.
portEvents(ports) ==
  IF ports = <<>> THEN <<>>
  ELSE LET port == Head(ports)
           unknown == port.Protocol # None /\ ~parseProtocol(port.Protocol[1]).ok
           number == port.Port # None /\ port.Port[1].Type = "Int"
       IN (IF unknown THEN <<"InvalidPort">>
           ELSE IF number /\ port.Port[1].IntVal > MaxUint16
           THEN <<"InvalidPort">>
           ELSE IF number /\ port.EndPort # None
                   /\ (port.EndPort[1] < port.Port[1].IntVal
                       \/ port.EndPort[1] > MaxUint16)
           THEN <<"InvalidPort">>
           ELSE <<>>) \o portEvents(Tail(ports))

RECURSIVE entryEvents(_, _)
\* createNWP lines 405-415 and 432-442: the events of createPeers for
\* each entry, whose peers are its From or its To.
entryEvents(entries, dir) ==
  IF entries = <<>> THEN <<>>
  ELSE peerEvents(IF dir = "ing" THEN Head(entries).From ELSE Head(entries).To)
         \o portEvents(Head(entries).Ports)
         \o entryEvents(Tail(entries), dir)

\* The events createNWP records: none on the path of lines 380-383.
createNWPEvents(nwp) ==
  IF createNWPErr(nwp) # NoError THEN <<>>
  ELSE (IF Len(nwp.PolicyTypes) = 0 \/ "Ingress" \in Range(nwp.PolicyTypes)
        THEN entryEvents(nwp.Ingress, "ing") ELSE <<>>)
       \o (IF "Egress" \in Range(nwp.PolicyTypes)
           THEN entryEvents(nwp.Egress, "eg") ELSE <<>>)

\* The events SetNetworkPolicy records, lines 491-508: those of createNWP
\* when it is called; deleteNWP records none.
SetNetworkPolicyEvents(c, name, nwp) ==
  IF nwp # None THEN createNWPEvents(nwp[1]) ELSE <<>>

-----------------------------------------------------------------------------
(* The objects the informers deliver. *)

PodKeys == {<<"a", "x">>, <<"a", "y">>, <<"b", "z">>}

NsNames == {"a", "b"}

PolKeys == {<<"a", "p">>, <<"a", "q">>}

web == <<"app", "web">>

red == <<"team", "red">>

httpPort == [Name |-> "http", Protocol |-> "TCP", ContainerPort |-> 80]

PodObject(labels, phase, ips, ports) ==
  [Labels |-> labels, Phase |-> phase, PodIPs |-> ips, Ports |-> ports]

\* The pod objects delivered under a key. Pods a/x and a/y can carry the
\* same address (host-network pods do).
PodInputs(name) ==
  IF name = <<"a", "x">>
  THEN {PodObject({}, "Running", <<"10.0.0.1">>, <<>>),
        PodObject({web}, "Running", <<"10.0.0.1">>, <<httpPort>>)}
  ELSE IF name = <<"a", "y">>
  THEN {PodObject({web}, "Running", <<"10.0.0.1">>, <<httpPort>>),
        PodObject({web}, "Running", <<"10.0.0.2">>, <<httpPort>>),
        PodObject({web}, "Succeeded", <<"10.0.0.2">>, <<>>)}
  ELSE {PodObject({web}, "Running", <<"10.0.0.2">>, <<httpPort>>)}

NsInputs(name) ==
  IF name = "a"
  THEN {[Name |-> name, Labels |-> {}], [Name |-> name, Labels |-> {red}]}
  ELSE {[Name |-> name, Labels |-> {red}]}

Peer(ipBlock, nsSel, podSel) ==
  [IPBlock |-> ipBlock, NamespaceSelector |-> nsSel, PodSelector |-> podSel]

PolicyPort(protocol, port, endPort) ==
  [Protocol |-> protocol, Port |-> port, EndPort |-> endPort]

IntPort(n) == Some([Type |-> "Int", IntVal |-> n, StrVal |-> ""])

StrPort(s) == Some([Type |-> "String", IntVal |-> 0, StrVal |-> s])

PolicyObject(podSel, types, ingress, egress) ==
  [PodSelector |-> podSel, PolicyTypes |-> types, Ingress |-> ingress,
   Egress |-> egress]

\* podSelector {}, ingress from podSelector {}.
PolicyAllowSameNs ==
  PolicyObject({}, <<>>, <<[From |-> <<Peer(None, None, Some({}))>>, Ports |-> <<>>]>>,
               <<>>)

\* podSelector app=web; ingress from the namespaces labelled team=red to
\* the port named http and to port 443; egress to the pods app=web of the
\* policy's namespace.
PolicyWeb ==
  PolicyObject({web}, <<"Ingress", "Egress">>,
    <<[From |-> <<Peer(None, Some({red}), None)>>,
       Ports |-> <<PolicyPort(Some("TCP"), StrPort("http"), None),
                   PolicyPort(None, IntPort(443), None)>>]>>,
    <<[To |-> <<Peer(None, None, Some({web}))>>, Ports |-> <<>>]>>)

\* podSelector {}, no ingress rule: default deny.
PolicyDenyIngress == PolicyObject({}, <<"Ingress">>, <<>>, <<>>)

PolicyInputs(name) ==
  IF name = <<"a", "p">> THEN {PolicyAllowSameNs, PolicyWeb}
  ELSE {PolicyDenyIngress}

\* The work item of a worker that holds none.
NoItem == <<"", "">>

\* The entry of the transaction New stages: the two tables are deleted and
\* created again with their chains and verdict maps.
Tables == <<NoItem, "tables">>

-----------------------------------------------------------------------------
(* The controller as a state machine: one action per event handled by the *)
(* worker, which flushes the staged operations after every handler.       *)

hookIng == <<"hook", NoKey, "ing", 0>>

hookEg == <<"hook", NoKey, "eg", 0>>

acceptEstablished(ch) ==
  [Chain |-> ch,
   Exprs |-> [NoExpr EXCEPT !.verdict = "accept", !.match = <<"ct">>]]

vmapLookup(ch, vmap) ==
  [Chain |-> ch, Exprs |-> [NoExpr EXCEPT !.verdict = "vmap", !.lookup = vmap]]

\* The controller New returns: empty maps, the two hook chains, the two
\* verdict maps.
New ==
  LET c0 == [namespaces |-> EmptyMap, pods |-> EmptyMap, nwps |-> EmptyMap,
             rules |-> EmptyMap, chains |-> EmptyMap, sets |-> EmptyMap,
             staged |-> <<>>]
      c1 == AddRule(AddChain(c0, hookIng), acceptEstablished(hookIng))
      c2 == AddRule(AddSet(c1, vmapIng, <<>>), vmapLookup(hookIng, vmapIng))
      c3 == AddRule(AddChain(c2, hookEg), acceptEstablished(hookEg))
  IN AddRule(AddSet(c3, vmapEg, <<>>), vmapLookup(hookEg, vmapEg))

\* The controller in the current state, nothing staged.
Ctrl ==
  [namespaces |-> namespaces, pods |-> pods, nwps |-> nwps, rules |-> rules,
   chains |-> chains, sets |-> sets, staged |-> <<>>]

\* Flush: the staged operations take effect.
Flush(c) ==
  /\ namespaces' = c.namespaces
  /\ pods' = c.pods
  /\ nwps' = c.nwps
  /\ rules' = c.rules
  /\ chains' = c.chains
  /\ sets' = c.sets

Init ==
  /\ namespaces = New.namespaces
  /\ pods = New.pods
  /\ nwps = New.nwps
  /\ rules = New.rules
  /\ chains = New.chains
  /\ sets = New.sets
  /\ rset = EmptyMap
  /\ rref = {}
  /\ eqA = normalizePod(<<"a", "x">>, PodObject({}, "Running", <<>>, <<>>))
  /\ eqB = eqA
  /\ eqResult = SemanticallyEqual(eqB, eqA)
  /\ listed = {}
  /\ initialList = {}
  /\ pending = {}
  /\ adding = {}
  /\ updates = 0
  /\ q = <<>>
  /\ dirty = FALSE
  /\ waiting = {}
  /\ wpc = "get"
  /\ witem = NoItem
  /\ mpc = "wait"
  /\ txn = <<Tables>>
  /\ commits = <<>>
  /\ processed = {}
  /\ flushErr = FALSE
  /\ signal = FALSE
  /\ shutDown = FALSE
  /\ lastNwp = None
  /\ lastErr = NoError
  /\ lastEvents = <<>>
  /\ portsCall = None
  /\ blocksCall = None
  /\ splitCall = None
  /\ nameCall = None
  /\ rangeCall = None
  /\ keyCall = None

PodEvents(name) == {None} \cup {Some(p) : p \in PodInputs(name)}

NsEvents(name) == {None} \cup {Some(n) : n \in NsInputs(name)}

PolicyEvents(name) == {None} \cup {Some(n) : n \in PolicyInputs(name)}

SetPodAct ==
  \E name \in PodKeys : \E pod \in PodEvents(name) :
    \E ord \in Orders(DOMAIN nwps) :
      /\ Flush(SetPod(Ctrl, name, pod, ord))
      /\ UNCHANGED besideCtrl

SetNamespaceAct ==
  \E name \in NsNames : \E ns \in NsEvents(name) :
    /\ Flush(SetNamespace(Ctrl, name, ns))
    /\ UNCHANGED besideCtrl

SetNetworkPolicyAct ==
  \E name \in PolKeys : \E nwp \in PolicyEvents(name) :
    /\ Flush(SetNetworkPolicy(Ctrl, name, nwp))
    /\ UNCHANGED besideCtrl

Next == SetPodAct \/ SetNamespaceAct \/ SetNetworkPolicyAct

Spec == Init /\ [][Next]_vars

-----------------------------------------------------------------------------
(* The rule compiler on entries whose peer list is empty or selects        *)
(* nothing: the same handlers, driven with one policy key, the policies    *)
(* below, and one pod in each of two namespaces.                           *)

PeerPolKey == <<"a", "p">>

PeerPodKeys == {<<"a", "x">>, <<"b", "z">>}

\* One ingress entry with the given peers and ports, for all pods of the
\* policy's namespace.
PolicyIngressEntry(from, ports) ==
  PolicyObject({}, <<"Ingress">>, <<[From |-> from, Ports |-> ports]>>, <<>>)

NamedHttp == PolicyPort(Some("TCP"), StrPort("http"), None)

Port443 == PolicyPort(None, IntPort(443), None)

\* Entries with an empty peer list: named port only; no ports; one numbered
\* port; a named and a numbered port.
EmptyPeerPolicies ==
  {PolicyIngressEntry(<<>>, <<NamedHttp>>),
   PolicyIngressEntry(<<>>, <<>>),
   PolicyIngressEntry(<<>>, <<Port443>>),
   PolicyIngressEntry(<<>>, <<NamedHttp, Port443>>)}

\* Entries with one peer: both selectors nil; an empty namespaceSelector
\* alone; an empty podSelector alone.
OnePeerPolicies ==
  {PolicyIngressEntry(<<Peer(None, None, None)>>, <<>>),
   PolicyIngressEntry(<<Peer(None, Some({}), None)>>, <<>>),
   PolicyIngressEntry(<<Peer(None, None, Some({web}))>>, <<>>)}

PeerPolicyInputs == EmptyPeerPolicies \cup OnePeerPolicies

SetPeerPodAct ==
  \E name \in PeerPodKeys : \E pod \in PodEvents(name) :
    \E ord \in Orders(DOMAIN nwps) :
      /\ Flush(SetPod(Ctrl, name, pod, ord))
      /\ UNCHANGED besideCtrl

SetPeerPolicyAct ==
  \E nwp \in {None} \cup {Some(n) : n \in PeerPolicyInputs} :
    /\ Flush(SetNetworkPolicy(Ctrl, PeerPolKey, nwp))
    /\ UNCHANGED besideCtrl

PeersNext == SetPeerPodAct \/ SetNamespaceAct \/ SetPeerPolicyAct

PeersSpec == Init /\ [][PeersNext]_vars

-----------------------------------------------------------------------------
(* The rule compiler on one policy with one ingress entry, as the informer *)
(* delivers it: created with an empty entry, updated peer by peer and port *)
(* by port, deleted; beside it one pod of the policy's namespace.          *)

MaxPeers == 2

MaxPorts == 2

CompilePodKey == <<"a", "x">>

\* A block that is compiled, and one whose CIDR does not parse.
BlockAll == Some([CIDR |-> <<0, 0>>, Except |-> <<>>])

BlockBad == Some([CIDR |-> <<0, AddrBits + 1>>, Except |-> <<>>])

\* The peers: a pod selector, well-formed and malformed; an ipBlock alone,
\* beside a selector, and with a bad CIDR.
RulePeers ==
  {Peer(None, None, Some({})), Peer(None, None, Some({BadLabel})),
   Peer(BlockAll, None, None), Peer(BlockAll, Some({}), None),
   Peer(BlockBad, None, None)}

\* The ports: every port of a protocol, one port, a range, a name, an
\* unknown protocol, a range that ends before it starts and a number below
\* 0.
RulePorts ==
  {PolicyPort(None, None, None),
   PolicyPort(None, IntPort(80), None),
   PolicyPort(Some("UDP"), IntPort(80), Some(90)),
   PolicyPort(None, StrPort("http"), None),
   PolicyPort(Some("ICMP"), IntPort(80), None),
   PolicyPort(None, IntPort(80), Some(79)),
   PolicyPort(None, IntPort(-1), None)}

\* SetNetworkPolicy for the object delivered, and the flush.
Deliver(nwp) ==
  /\ Flush(SetNetworkPolicy(Ctrl, PeerPolKey, nwp))
  /\ lastNwp' = nwp
  /\ lastErr' = SetNetworkPolicyErr(Ctrl, PeerPolKey, nwp)
  /\ lastEvents' = SetNetworkPolicyEvents(Ctrl, PeerPolKey, nwp)
  /\ UNCHANGED <<rangeVars, eqVars, mainVars, pureVars>>

\* The objects the informer can deliver next: the policy created with an
\* empty entry; updated by one more peer, one more port or another pod
\* selector; deleted.
PolicyUpdates ==
  IF lastNwp = None
  THEN {Some(PolicyObject(sel, <<>>, <<[From |-> <<>>, Ports |-> <<>>]>>, <<>>)) :
          sel \in {{}, {BadLabel}}}
  ELSE {None}
       \cup {Some([lastNwp[1] EXCEPT !.PodSelector = sel]) :
               sel \in {{}, {BadLabel}} \ {lastNwp[1].PodSelector}}
       \cup (IF Len(lastNwp[1].Ingress[1].From) < MaxPeers
             THEN {Some([lastNwp[1] EXCEPT !.Ingress[1].From = Append(@, peer)]) :
                     peer \in RulePeers}
             ELSE {})
       \cup (IF Len(lastNwp[1].Ingress[1].Ports) < MaxPorts
             THEN {Some([lastNwp[1] EXCEPT !.Ingress[1].Ports = Append(@, port)]) :
                     port \in RulePorts}
             ELSE {})

CompilePolicyAct == \E nwp \in PolicyUpdates : Deliver(nwp)

\* The pod is created, with an address and a named port, or deleted.
CompilePodAct ==
  \E pod \in {None, Some(PodObject({web}, "Running", <<"10.0.0.1">>, <<httpPort>>))} :
    /\ Flush(SetPod(Ctrl, CompilePodKey, pod, SeqOf(DOMAIN nwps)))
    /\ UNCHANGED besideCtrl

\* The namespace of the policy and of the pod is created or deleted.
CompileNsAct ==
  \E ns \in {None, Some([Name |-> "a", Labels |-> {red}])} :
    /\ Flush(SetNamespace(Ctrl, "a", ns))
    /\ UNCHANGED besideCtrl

CompileNext ==
  \/ CompilePolicyAct
  \/ CompilePodAct
  \/ CompileNsAct

CompileSpec == Init /\ [][CompileNext]_vars

-----------------------------------------------------------------------------
(* The ports loop of createPeers on the port lists of an entry. *)

\* The NetworkPolicyPort entries: no port, numbers and ranges inside and
\* outside 0..65535, names, the three protocols and one that is unknown.
PortInputs ==
  {PolicyPort(None, None, None),
   PolicyPort(Some("UDP"), None, None),
   PolicyPort(None, IntPort(80), None),
   PolicyPort(Some("UDP"), IntPort(80), Some(90)),
   PolicyPort(Some("SCTP"), IntPort(0), None),
   PolicyPort(None, IntPort(0), Some(65535)),
   PolicyPort(None, IntPort(65535), None),
   PolicyPort(Some("ICMP"), IntPort(80), None),
   PolicyPort(None, StrPort("http"), None),
   PolicyPort(Some("UDP"), StrPort("dns"), None),
   PolicyPort(None, IntPort(65536), None),
   PolicyPort(None, IntPort(-1), None),
   PolicyPort(None, IntPort(-2), Some(-1)),
   PolicyPort(None, IntPort(-1), Some(80)),
   PolicyPort(None, IntPort(80), Some(79)),
   PolicyPort(None, IntPort(80), Some(65536))}

\* The port lists of an entry, up to MaxPorts entries.
PortLists == UNION {[1..n -> PortInputs] : n \in 0..MaxPorts}

\* createPeers lines 146-201 on one list of ports.
ClassifyPortsAct ==
  /\ \E ports \in PortLists :
       portsCall' = Some([ports |-> ports,
                          acc |-> classifyPorts(ports, [dynPorts |-> <<>>,
                                                        portProtos |-> <<>>])])
  /\ UNCHANGED <<ctrlVars, rangeVars, eqVars, mainVars, lastNwp, lastErr,
                 lastEvents, blocksCall, splitCall, nameCall, keyCall>>

PortsNext == ClassifyPortsAct

PortsSpec == Init /\ [][PortsNext]_vars

-----------------------------------------------------------------------------
(* The ipBlock part of createPeers on the peers of an entry. *)

MaxExcepts == 1

\* The CIDR strings: every address with every prefix length, masked or
\* not, and one that does not parse.
Cidrs == ((0..(AddrSpace - 1)) \X (0..AddrBits)) \cup {<<0, AddrBits + 1>>}

\* The ipBlock peers: a CIDR with up to MaxExcepts except values, contained
\* in the CIDR or not; and a block beside a selector.
BlockPeers ==
  {Peer(Some([CIDR |-> cidr, Except |-> ex]), None, None) :
     cidr \in Cidrs, ex \in UNION {[1..n -> Cidrs] : n \in 0..MaxExcepts}}
    \cup {Peer(BlockAll, Some({}), None)}

\* createPeers lines 88-121 and 325-328, called once, on one list of
\* peers: the permitted ranges and the elements of the anonymous set.
LowerBlocksAct ==
  /\ blocksCall = None
  /\ \E peers \in UNION {[1..n -> BlockPeers] : n \in 1..MaxPeers} :
       blocksCall' = Some([peers |-> peers,
                           permitted |-> peerIPBlocks(peers, EmptyMap),
                           elems |-> rangeElements(peerIPBlocks(peers, EmptyMap))])
  /\ UNCHANGED <<ctrlVars, rangeVars, eqVars, mainVars, lastNwp, lastErr,
                 lastEvents, portsCall, splitCall, nameCall, keyCall>>

BlocksNext == LowerBlocksAct

BlocksSpec == Init /\ [][BlocksNext]_vars

-----------------------------------------------------------------------------
(* Conn.splitVals on the sets the controller declares. *)

MaxElems == 2

\* The sets of the controller by kind, with the lengths of their key and
\* data types: the verdict maps, the named-port and podips sets of a rule,
\* the anonymous ipBlock set and the anonymous protocol/port set.
SetKinds ==
  {[kind |-> "vmap", type |-> SetType(4, 16, 0, 0)],
   [kind |-> "namedports", type |-> SetType(12, 24, 0, 0)],
   [kind |-> "podips", type |-> SetType(4, 16, 0, 0)],
   [kind |-> "ipblocks", type |-> SetType(4, 16, 0, 0)],
   [kind |-> "protoport", type |-> protoPortSet]}

\* Elements told apart by a number, with keys of the lengths the
\* controller builds and of one it does not; the data is a verdict or
\* absent.
SplitElems ==
  [Key : 1..MaxElems, KeyLen : {4, 5, 8, 12, 16, 24}, ValLen : {0}]

\* AddSet, SetAddElements and SetDeleteElements call splitVals on the
\* elements they are given.
SplitValsAct ==
  /\ \E set \in SetKinds :
       \E vals \in UNION {[1..n -> SplitElems] : n \in 0..MaxElems} :
         splitCall' = Some([set |-> set, vals |-> vals,
                            out |-> splitVals(set.type, vals)])
  /\ UNCHANGED <<ctrlVars, rangeVars, eqVars, mainVars, lastNwp, lastErr,
                 lastEvents, portsCall, blocksCall, nameCall, keyCall>>

SplitNext == SplitValsAct

SplitSpec == Init /\ [][SplitNext]_vars

-----------------------------------------------------------------------------
(* The names of chains and sets, by their lengths in bytes. *)

\* The longest namespace and the longest name of an object.
MaxNsLen == 63

MaxNameLen == 253

\* The longest index of an entry in a policy's ingress or egress list.
MaxIndex == 10

\* The length of string(obj.UID).
UIDLen == 36

\* The threshold of objectID.
IDThreshold == 128

\* objectID by length: the UID if namespace, "_" and name are longer
\* than the threshold, the two joined by "_" otherwise.
objectIDLen(nsLen, nameLen) ==
  IF nsLen + 1 + nameLen > IDThreshold
  THEN [uid |-> TRUE, len |-> UIDLen]
  ELSE [uid |-> FALSE, len |-> nsLen + 1 + nameLen]

\* The decimal digits of an index (%d).
Digits(i) == IF i < 10 THEN 1 ELSE 2

\* addPodNWP: "pod_%s_ing" and "pod_%s_eg" with the pod's ID.
podChainLen(idLen, dir) == 4 + idLen + (IF dir = "ing" THEN 4 ELSE 3)

\* createNWP: "pol_%v_%v_ing" and "pol_%v_%v_eg" with the policy's
\* namespace and name.
polChainLen(nsLen, nameLen, dir) ==
  4 + nsLen + 1 + nameLen + (IF dir = "ing" THEN 4 ELSE 3)

\* createNWP and createPeers: the prefix "%v_%d" of chain name and index,
\* with "_podips" or "_namedports".
setNameLen(nsLen, nameLen, dir, i, kind) ==
  polChainLen(nsLen, nameLen, dir) + 1 + Digits(i)
    + (IF kind = "podips" THEN 7 ELSE 11)

\* The names emitted for a pod and for a policy with this namespace and
\* name, the policy with an entry of this index: called once.
NameAct ==
  /\ nameCall = None
  /\ \E nsLen \in 1..MaxNsLen, nameLen \in 1..MaxNameLen, i \in {0, MaxIndex} :
       nameCall' =
         Some([nsLen |-> nsLen, nameLen |-> nameLen, index |-> i,
               id |-> objectIDLen(nsLen, nameLen),
               names |->
                 {podChainLen(objectIDLen(nsLen, nameLen).len, d) : d \in {"ing", "eg"}}
                   \cup {polChainLen(nsLen, nameLen, d) : d \in {"ing", "eg"}}
                   \cup {setNameLen(nsLen, nameLen, d, i, k) :
                           d \in {"ing", "eg"}, k \in {"podips", "namedports"}}])
  /\ UNCHANGED <<ctrlVars, rangeVars, eqVars, mainVars, lastNwp, lastErr,
                 lastEvents, portsCall, blocksCall, splitCall, keyCall>>

NameNext == NameAct

NameSpec == Init /\ [][NameNext]_vars

-----------------------------------------------------------------------------
(* Pod.SemanticallyEqual as SetPod's update branch applies it: the pod     *)
(* normalized from the delivered object against the synced pod. The pods   *)
(* compared here may also differ in their key.                             *)

EqPodKeys == {<<"a", "x">>, <<"a", "y">>}

\* Status.PodIPs of up to two entries; normalizePod keeps them as they come,
\* repeated entries included.
EqPodIPs ==
  {<<>>} \cup {<<i>> : i \in {"10.0.0.1", "10.0.0.2"}}
         \cup {<<i, j>> : i, j \in {"10.0.0.1", "10.0.0.2"}}

EqPodObjects ==
  {PodObject(l, "Running", ips, ports) :
     l \in {{}, {web}}, ips \in EqPodIPs, ports \in {<<>>, <<httpPort>>}}

\* One more pod object is delivered: the pod normalized from it is compared
\* with the pod normalized before it, which is the synced pod by then.
ComparePodsAct ==
  \E name \in EqPodKeys : \E pod \in EqPodObjects :
    LET syncedPod == eqB
        np == normalizePod(name, pod)
    IN /\ eqA' = syncedPod
       /\ eqB' = np
       /\ eqResult' = SemanticallyEqual(np, syncedPod)
       /\ UNCHANGED besideEq

EqualNext == ComparePodsAct

EqualSpec == Init /\ [][EqualNext]_vars

-----------------------------------------------------------------------------
(* main.go: the informers' event handlers, the worker and main. An event   *)
(* is its work item here; what its handler stages is two entries of the    *)
(* transaction, the first of its mutations and the rest, since the         *)
(* handlers stage several operations one after the other. The transaction  *)
(* starts with what New has staged: the replacement of the tables.         *)

Types == {"ns", "pod", "nwp"}

WorkItems == {<<"ns", "a">>, <<"pod", "x">>, <<"nwp", "p">>}

ItemsOf(typ) == {i \in WorkItems : i[1] = typ}

\* UpstreamHasSynced: every handler has been handed its initial list and has
\* returned from OnAdd for each item of it.
UpstreamHasSynced == listed = Types /\ pending = {} /\ adding = {}

\* HasSynced of a tracker that ignores the items it has started.
HasSyncedUpstreamOnly == UpstreamHasSynced

\* AsyncTracker.HasSynced: upstream has synced and no started item is
\* unfinished.
HasSynced == UpstreamHasSynced /\ waiting = {}

\* The worker is between q.Get and q.Done.
Processing == wpc \in {"stage", "rest"}

\* main has not returned: the process and its goroutines run.
Running == mpc # "returned"

\* informerFactory.Start(ctx.Done()), line 178: the informers run until the
\* context is cancelled.
Informing == Running /\ ~signal

\* q.Add: a queue that is shut down takes nothing; an item already waiting
\* is not added again; an item being processed is marked and added when
\* the worker is done with it.
QueueAdd(item) ==
  IF shutDown \/ item \in Range(q) THEN UNCHANGED <<q, dirty>>
  ELSE IF Processing /\ witem = item THEN dirty' = TRUE /\ UNCHANGED q
  ELSE q' = Append(q, item) /\ UNCHANGED dirty

\* An informer receives its initial list.
InformerListAct ==
  \E typ \in Types \ listed : \E list \in SUBSET ItemsOf(typ) :
    /\ Informing
    /\ listed' = listed \cup {typ}
    /\ pending' = pending \cup list
    /\ initialList' = initialList \cup list
    /\ UNCHANGED <<adding, updates, queueVars, workerVars>>
    /\ UNCHANGED <<besideMain, stopVars>>

\* OnAdd for an item of the initial list, line 64: c.q.Add(item).
OnAddEnqueueAct ==
  \E item \in pending :
    /\ Informing
    /\ QueueAdd(item)
    /\ pending' = pending \ {item}
    /\ adding' = adding \cup {item}
    /\ UNCHANGED <<listed, initialList, updates, waiting, workerVars>>
    /\ UNCHANGED <<besideMain, stopVars>>

\* OnAdd for an item of the initial list, lines 65-67: hasProcessed.Start.
OnAddStartAct ==
  \E item \in adding :
    /\ Informing
    /\ waiting' = waiting \cup {item}
    /\ adding' = adding \ {item}
    /\ UNCHANGED <<listed, initialList, pending, updates, q, dirty, workerVars>>
    /\ UNCHANGED <<besideMain, stopVars>>

\* OnUpdate, OnDelete, and OnAdd after the initial list: c.q.Add(item).
OnChangeAct ==
  \E item \in WorkItems \ (pending \cup adding) :
    /\ Informing
    /\ item[1] \in listed
    /\ updates < MaxUpdates
    /\ QueueAdd(item)
    /\ updates' = updates + 1
    /\ UNCHANGED <<listed, initialList, pending, adding, waiting, workerVars>>
    /\ UNCHANGED <<besideMain, stopVars>>

\* worker line 89: c.q.Get() hands out an item, of a queue that is shut down
\* as well, as long as there is one.
WorkerGetAct ==
  /\ Running
  /\ wpc = "get"
  /\ q # <<>>
  /\ witem' = Head(q)
  /\ q' = Tail(q)
  /\ dirty' = FALSE
  /\ wpc' = "stage"
  /\ UNCHANGED <<informerVars, waiting, mpc, txn, commits, processed, flushErr>>
  /\ UNCHANGED <<besideMain, stopVars>>

\* worker lines 89 and 131-137: c.q.Get() on an empty queue that is shut
\* down returns shut; the worker marks the zero item done and returns.
WorkerStopAct ==
  /\ Running
  /\ wpc = "get"
  /\ q = <<>>
  /\ shutDown
  /\ wpc' = "stopped"
  /\ witem' = NoItem
  /\ UNCHANGED <<informerVars, queueVars, mpc, txn, commits, processed, flushErr>>
  /\ UNCHANGED <<besideMain, stopVars>>

\* The handler of the item stages the first of its mutations.
WorkerStageAct ==
  /\ Running
  /\ wpc = "stage"
  /\ txn' = Append(txn, <<witem, "first">>)
  /\ wpc' = "rest"
  /\ UNCHANGED <<informerVars, queueVars, witem, mpc, commits, processed, flushErr>>
  /\ UNCHANGED <<besideMain, stopVars>>

\* The handler stages the rest and returns; c.q.Done(i).
WorkerDoneAct ==
  /\ Running
  /\ wpc = "rest"
  /\ txn' = Append(txn, <<witem, "rest">>)
  /\ processed' = processed \cup {witem}
  /\ q' = IF dirty THEN Append(q, witem) ELSE q
  /\ dirty' = FALSE
  /\ wpc' = "flush"
  /\ UNCHANGED <<informerVars, waiting, witem, mpc, commits, flushErr>>
  /\ UNCHANGED <<besideMain, stopVars>>

\* c.nft.Flush(): the transaction is sent as one batch, and the commit
\* succeeds or fails. What is left of the transaction after a failed commit
\* is decided by the netlink library: it is kept or it is dropped.
Commit(ok) ==
  /\ commits' = Append(commits, [batch |-> txn, ok |-> ok])
  /\ txn' \in IF ok THEN {<<>>} ELSE {txn, <<>>}

\* worker lines 96-100: flush if the initial list has been processed; a
\* failure is logged.
WorkerFlushAct ==
  /\ Running
  /\ wpc = "flush"
  /\ IF HasSynced
     THEN \E ok \in BOOLEAN : Commit(ok) /\ flushErr' = ~ok
     ELSE UNCHANGED <<txn, commits>> /\ flushErr' = FALSE
  /\ wpc' = "finished"
  /\ UNCHANGED <<informerVars, queueVars, witem, mpc, processed>>
  /\ UNCHANGED <<besideMain, stopVars>>

\* worker line 101: c.hasProcessed.Finished(i).
WorkerFinishedAct ==
  /\ Running
  /\ wpc = "finished"
  /\ waiting' = waiting \ {witem}
  /\ wpc' = "get"
  /\ UNCHANGED <<informerVars, q, dirty, witem, mpc, txn, commits, processed,
                 flushErr>>
  /\ UNCHANGED <<besideMain, stopVars>>

\* signal.NotifyContext, line 143: an interrupt cancels the context.
SignalAct ==
  /\ Running
  /\ ~signal
  /\ signal' = TRUE
  /\ UNCHANGED <<informerVars, queueVars, workerVars, shutDown, besideMain>>

\* main line 183: WaitForNamedCacheSync returns once HasSynced is true, or
\* once the context is cancelled; main does not look at what it returns.
MainWaitAct ==
  /\ mpc = "wait"
  /\ HasSynced \/ signal
  /\ mpc' = "flush"
  /\ UNCHANGED <<informerVars, queueVars, wpc, witem, txn, commits, processed,
                 flushErr>>
  /\ UNCHANGED <<besideMain, stopVars>>

\* main lines 184-186: the initial flush; a failure is logged.
MainFlushAct ==
  /\ mpc = "flush"
  /\ \E ok \in BOOLEAN : Commit(ok)
  /\ mpc' = "done"
  /\ UNCHANGED <<informerVars, queueVars, wpc, witem, processed, flushErr>>
  /\ UNCHANGED <<besideMain, stopVars>>

\* main lines 187-189: the context is done; c.q.ShutDown().
MainShutDownAct ==
  /\ mpc = "done"
  /\ signal
  /\ shutDown' = TRUE
  /\ mpc' = "shut"
  /\ UNCHANGED <<informerVars, queueVars, wpc, witem, txn, commits, processed,
                 flushErr, signal, besideMain>>

\* main line 190: main returns and the process ends, its goroutines with
\* it.
MainReturnAct ==
  /\ mpc = "shut"
  /\ mpc' = "returned"
  /\ UNCHANGED <<informerVars, queueVars, wpc, witem, txn, commits, processed,
                 flushErr, stopVars, besideMain>>

MainNext ==
  \/ InformerListAct
  \/ OnAddEnqueueAct
  \/ OnAddStartAct
  \/ OnChangeAct
  \/ WorkerGetAct
  \/ WorkerStopAct
  \/ WorkerStageAct
  \/ WorkerDoneAct
  \/ WorkerFlushAct
  \/ WorkerFinishedAct
  \/ SignalAct
  \/ MainWaitAct
  \/ MainFlushAct
  \/ MainShutDownAct
  \/ MainReturnAct

MainSpec == Init /\ [][MainNext]_vars

\* The process while no interrupt arrives: the informers, the worker and
\* main up to its wait for the context.
SyncNext ==
  \/ InformerListAct
  \/ OnAddEnqueueAct
  \/ OnAddStartAct
  \/ OnChangeAct
  \/ WorkerGetAct
  \/ WorkerStageAct
  \/ WorkerDoneAct
  \/ WorkerFlushAct
  \/ WorkerFinishedAct
  \/ MainWaitAct
  \/ MainFlushAct

\* The goroutines of the informers, of the worker and of main are scheduled
\* fairly: a step of theirs that stays possible is taken. What the cluster
\* sends after the initial lists (OnChangeAct) is under no obligation.
SyncFairness ==
  /\ WF_vars(InformerListAct)
  /\ WF_vars(OnAddEnqueueAct)
  /\ WF_vars(OnAddStartAct)
  /\ WF_vars(WorkerGetAct)
  /\ WF_vars(WorkerStageAct)
  /\ WF_vars(WorkerDoneAct)
  /\ WF_vars(WorkerFlushAct)
  /\ WF_vars(WorkerFinishedAct)
  /\ WF_vars(MainWaitAct)
  /\ WF_vars(MainFlushAct)

SyncFairSpec == Init /\ [][SyncNext]_vars /\ SyncFairness


-----------------------------------------------------------------------------
(* The Range Set as a state machine, beside the bitmap of its fuzz test. *)

\* The ranges of the domain a caller can pass, valid or not.
CallRanges == [Start : 0..RangeMax, End : 0..RangeMax]

\* Add lines 95-97: assertValid panics before the tree is read.
AddCall(t, a) ==
  IF assertValid(a) THEN [t |-> Add(t, a), panic |-> FALSE]
  ELSE [t |-> t, panic |-> TRUE]

\* Subtract lines 55-57: assertValid panics before the tree is read.
SubtractCall(t, a) ==
  IF assertValid(a) THEN [t |-> Subtract(t, a), panic |-> FALSE]
  ELSE [t |-> t, panic |-> TRUE]

\* The process has not panicked.
RangesAlive == IF rangeCall = None THEN TRUE ELSE ~rangeCall[1].panic

\* The bitmap of the fuzz test follows the calls that return.
RangesAddAct ==
  /\ RangesAlive
  /\ \E a \in CallRanges :
       /\ rset' = AddCall(rset, a).t
       /\ rref' = IF AddCall(rset, a).panic THEN rref ELSE trivialAdd(rref, a)
       /\ rangeCall' = Some([a |-> a, panic |-> AddCall(rset, a).panic])
  /\ UNCHANGED besideRanges

RangesSubtractAct ==
  /\ RangesAlive
  /\ \E a \in CallRanges :
       /\ rset' = SubtractCall(rset, a).t
       /\ rref' = IF SubtractCall(rset, a).panic THEN rref
                  ELSE trivialSubtract(rref, a)
       /\ rangeCall' = Some([a |-> a, panic |-> SubtractCall(rset, a).panic])
  /\ UNCHANGED besideRanges

RangesNext == RangesAddAct \/ RangesSubtractAct

RangesSpec == Init /\ [][RangesNext]_vars

-----------------------------------------------------------------------------
(* The key of the named-port set: as the set declares it, as the elements  *)
(* of a pod are built, and as the lookup rule reads it from the registers  *)
(* of a packet. Keys are sequences of bytes; a register holds four bytes.  *)

\* The length in bytes of the nftables data types the sets use.
TypeBytes(t) ==
  CASE t = "ipv4_addr" -> 4
    [] t = "ipv6_addr" -> 16
    [] t = "inet_proto" -> 1
    [] t = "inet_service" -> 2

\* What a value of a data type says.
TypeField(t) ==
  CASE t \in {"ipv4_addr", "ipv6_addr"} -> "ip"
    [] t = "inet_proto" -> "proto"
    [] t = "inet_service" -> "port"

\* The length of a field of a concatenation: padded to whole registers.
Padded(n) == ((n + 3) \div 4) * 4

RECURSIVE SumBytes(_)
SumBytes(types) ==
  IF types = <<>> THEN 0 ELSE Padded(TypeBytes(Head(types))) + SumBytes(Tail(types))

\* nftables.MustConcatSetType: the fields in the order given.
ConcatSetType(types) == [Fields |-> types, Bytes |-> SumBytes(types)]

\* nwp.go lines 209-210: KeyType and KeyType6 of the named-port set.
namedPortKeyType(fam) ==
  IF fam = 4 THEN ConcatSetType(<<"ipv4_addr", "inet_proto", "inet_service">>)
  ELSE ConcatSetType(<<"ipv6_addr", "inet_proto", "inet_service">>)

\* binary.BigEndian.AppendUint16.
AppendUint16(b, v) == b \o <<(v \div 256) % 256, v % 256>>

\* pod.go line 71: the key of the element namedPortElements builds for the
\* address ip, the protocol of the request and the port the name resolves to.
namedPortKey(protocol, port, ip) ==
  (AppendUint16(<<protocol, 0, 0, 0>>, port) \o <<0, 0>>) \o ip

\* The fields of that key, in its order.
namedPortKeyFields == <<"proto", "port", "ip">>

\* The registers of a packet's evaluation: NumRegs registers of four bytes.
NumRegs == 8

\* A payload or meta load of the bytes b into the registers from dst on;
\* the last register touched is padded with zeros.
LoadReg(regs, dst, b) ==
  LET n == Padded(Len(b)) \div 4
      byte(i) == IF i <= Len(b) THEN b[i] ELSE 0
  IN [r \in DOMAIN regs |->
        IF r >= dst /\ r < dst + n
        THEN [j \in 1..4 |-> byte((r - dst) * 4 + j)]
        ELSE regs[r]]

\* exprs.go lines 23-48: the source address for ingress, the destination
\* address for egress.
loadIP(regs, dir, dstReg, pkt) ==
  LoadReg(regs, dstReg, IF dir = "eg" THEN pkt.dst ELSE pkt.src)

\* nwp.go lines 222-225: expr.Meta with MetaKeyL4PROTO.
loadL4Proto(regs, dstReg, pkt) == LoadReg(regs, dstReg, <<pkt.proto>>)

\* exprs.go lines 68-75: the two bytes at offset 2 of the transport header.
loadDstPort(regs, dstReg, pkt) ==
  LoadReg(regs, dstReg, AppendUint16(<<>>, pkt.dport))

RECURSIVE ReadRegs(_, _, _)
\* The n registers from src on, as one key.
ReadRegs(regs, src, n) ==
  IF n = 0 THEN <<>> ELSE regs[src] \o ReadRegs(regs, src + 1, n - 1)

\* nwp.go lines 218-233: the key the rule of the named-port set looks up for
\* the packet pkt of family fam. The registers no expression of the rule
\* loads hold what the evaluation left in them, here the word junk.
namedPortLookupKey(fam, dir, pkt, junk) ==
  LET r0 == [r \in 0..(NumRegs - 1) |-> junk]
      r1 == loadIP(r0, dir, 0, pkt)
      r2 == loadL4Proto(r1, 4, pkt)
      r3 == loadDstPort(r2, 5, pkt)
  IN ReadRegs(r3, 0, namedPortKeyType(fam).Bytes \div 4)

\* The fields the rule loads, in the order of their registers.
namedPortLoadFields == <<"ip", "proto", "port">>

\* The addresses, as netip.Addr.AsSlice gives them.
KeyAddrs(fam) ==
  IF fam = 4 THEN {<<10, 0, 0, 1>>, <<10, 0, 0, 2>>, <<192, 168, 1, 6>>}
  ELSE {<<253, 0, 0, 0, 0, 0, 0, 0, 0, 0, 0, 0, 0, 0, 0, last>> :
          last \in {1, 2, 6}}

\* The word an unloaded register holds.
JunkWords == {<<0, 0, 0, 0>>, <<255, 255, 255, 255>>}

\* One pod with a named port, the element built for it, and the key the
\* rule looks up for a packet to that address and port.
NamedPortKeyAct ==
  \E fam \in {4, 6} : \E ip \in KeyAddrs(fam) : \E other \in KeyAddrs(fam) :
    \E protocol \in {IPPROTO_TCP, IPPROTO_UDP} : \E port \in {80, 443, 8080} :
      \E dir \in {"ing", "eg"} : \E junk \in JunkWords :
        LET pkt == [src |-> IF dir = "ing" THEN ip ELSE other,
                    dst |-> IF dir = "eg" THEN ip ELSE other,
                    proto |-> protocol, dport |-> port]
        IN /\ other # ip
           /\ keyCall' = Some([fam |-> fam, ip |-> ip, protocol |-> protocol,
                                port |-> port, dir |-> dir, pkt |-> pkt,
                                declared |-> namedPortKeyType(fam),
                                elem |-> namedPortKey(protocol, port, ip),
                                looked |-> namedPortLookupKey(fam, dir, pkt, junk)])
           /\ UNCHANGED <<ctrlVars, rangeVars, eqVars, mainVars, lastNwp, lastErr,
                          lastEvents, portsCall, blocksCall, splitCall, nameCall>>

KeyNext == NamedPortKeyAct

KeySpec == Init /\ [][KeyNext]_vars

-----------------------------------------------------------------------------
(* The properties. *)

Dirs == {"ing", "eg"}

podChainOf(pm, d) == IF d = "ing" THEN pm.ingressChain ELSE pm.egressChain

polChainOf(pol, d) == IF d = "ing" THEN pol.ingressChain ELSE pol.egressChain

policyRefsOf(pm, d) ==
  IF d = "ing" THEN pm.ingressPolicyRefs ELSE pm.egressPolicyRefs

vmapOf(d) == IF d = "ing" THEN vmapIng ELSE vmapEg

\* Pod pk's d-dispatch chain exists and holds a jump into policy nk's
\* d-chain, and that rule is the handle recorded for nk in pk's d policy map.
HasJump(pk, nk, d) ==
  LET pm == pods[pk]
      ch == podChainOf(pm, d)
      refs == policyRefsOf(pm, d)
  IN /\ ch # NoName
     /\ ch \in DOMAIN chains
     /\ nk \in DOMAIN refs
     /\ refs[nk].Chain = ch
     /\ refs[nk].Exprs.verdict = "jump"
     /\ refs[nk].Exprs.target = polChainOf(nwps[nk], d)
     /\ refs[nk] \in Range(chains[ch])

\* C1. Reference symmetry: after every event, for every registered pod p,
\* registered policy P and direction d that P defines, p is in P's pod
\* back-references if and only if p's d-dispatch chain exists and contains
\* a jump into P's d-chain whose handle is recorded in p's d policy map.
ReferenceSymmetry ==
  \A pk \in DOMAIN pods : \A nk \in DOMAIN nwps : \A d \in Dirs :
    polChainOf(nwps[nk], d) # NoName =>
      (pk \in nwps[nk].podRefs <=> HasJump(pk, nk, d))

\* A policy that defines both directions refers to one registered pod, with
\* both jumps in place, and not to another registered pod.
ReferenceSymmetryWitness ==
  \E pk \in DOMAIN pods : \E qk \in DOMAIN pods : \E nk \in DOMAIN nwps :
    /\ nwps[nk].ingressChain # NoName
    /\ nwps[nk].egressChain # NoName
    /\ pk \in nwps[nk].podRefs
    /\ HasJump(pk, nk, "ing")
    /\ HasJump(pk, nk, "eg")
    /\ qk \notin nwps[nk].podRefs
    /\ ~HasJump(qk, nk, "ing")

\* C2. Rule membership: after every event, for every registered rule r and
\* registered pod p, p is in r's contributing pods if and only if
\* ruleSelectsPod(r, p) holds on the current pod labels and namespace map.
RuleMembership ==
  \A rk \in DOMAIN rules : \A pk \in DOMAIN pods :
    pk \in rules[rk].podRefs <=> ruleSelectsPod(Ctrl, rules[rk], pods[pk])

\* The addresses of the pods contributing to rule r.
podIPsOf(r) ==
  UNION {Range(pods[pk].IPs) : pk \in r.podRefs \cap DOMAIN pods}

\* The keys of the elements of a set of the ruleset.
Keys(elems) == {e.Key : e \in elems}

\* C3. Pod-IP set contents: after every event, the elements of the pod-IP
\* set of every rule that owns one are exactly the addresses of the pods
\* contributing to the rule.
PodIPSetContents ==
  \A rk \in DOMAIN rules :
    rules[rk].PodIPSet # NoName =>
      /\ rules[rk].PodIPSet \in DOMAIN sets
      /\ Keys(sets[rules[rk].PodIPSet]) = podIPsOf(rules[rk])

\* The tuples rule r's named-port requests resolve to on its contributing
\* pods.
namedPortTuplesOf(r) ==
  LET resolves(pk, i) ==
        /\ r.NamedPortMeta[i].PortName \in DOMAIN pods[pk].NamedPorts
        /\ pods[pk].NamedPorts[r.NamedPortMeta[i].PortName].Protocol
             = r.NamedPortMeta[i].Protocol
      tuples(pk, i) ==
        IF resolves(pk, i)
        THEN {<<r.NamedPortMeta[i].Protocol,
                pods[pk].NamedPorts[r.NamedPortMeta[i].PortName].Port, ip>> :
                ip \in Range(pods[pk].IPs)}
        ELSE {}
  IN UNION {tuples(t[1], t[2]) :
              t \in (r.podRefs \cap DOMAIN pods) \X (DOMAIN r.NamedPortMeta)}

\* C4. Named-port set contents: after every event, the elements of the
\* named-port set of every rule that owns one are exactly the tuples
\* (proto, port, ip) such that a contributing pod has the address ip and a
\* named port that a request (name, proto) of the rule resolves to.
NamedPortSetContents ==
  \A rk \in DOMAIN rules :
    rules[rk].NamedPortSet # NoName =>
      /\ rules[rk].NamedPortSet \in DOMAIN sets
      /\ Keys(sets[rules[rk].NamedPortSet]) = namedPortTuplesOf(rules[rk])

\* C5. Verdict-map completeness: after every event, an address is a key of
\* the d verdict map if and only if it is an address of a registered pod
\* that has a d-dispatch chain, and its value is a jump to that pod's chain.
VmapCompleteness ==
  \A d \in Dirs :
    /\ \A e \in sets[vmapOf(d)] :
         \E pk \in DOMAIN pods :
           /\ podChainOf(pods[pk], d) # NoName
           /\ e.Key \in Range(pods[pk].IPs)
           /\ e.Chain = podChainOf(pods[pk], d)
    /\ \A pk \in DOMAIN pods :
         podChainOf(pods[pk], d) # NoName =>
           \A ip \in Range(pods[pk].IPs) :
             [Key |-> ip, Chain |-> podChainOf(pods[pk], d)] \in sets[vmapOf(d)]

\* Some registered policy with a d-chain selects pod pk.
Selected(pk, d) ==
  \E nk \in DOMAIN nwps :
    /\ polChainOf(nwps[nk], d) # NoName
    /\ nwps[nk].Namespace = pods[pk].Namespace
    /\ SelMatches(nwps[nk].PodSelector, pods[pk].Labels)

\* C6. Dispatch-chain existence: after every event, a registered pod p has
\* a d-dispatch chain if and only if a registered policy with a d-chain
\* selects p; a pod no policy selects has no dispatch chain in the ruleset
\* and no verdict-map entry that jumps to a chain of p.
DispatchChainExistence ==
  \A pk \in DOMAIN pods : \A d \in Dirs :
    /\ (/\ podChainOf(pods[pk], d) # NoName
        /\ podChainOf(pods[pk], d) \in DOMAIN chains) <=> Selected(pk, d)
    /\ ~Selected(pk, d) =>
         /\ podChainOf(pods[pk], d) = NoName
         /\ PodChainName(objectID(pk[1], pk[2]), d) \notin DOMAIN chains
         /\ \A e \in sets[vmapOf(d)] :
              e.Chain # PodChainName(objectID(pk[1], pk[2]), d)

\* One registered pod with addresses is selected and has its chain and its
\* verdict-map entry while another registered pod with addresses is selected
\* by no policy.
DispatchChainExistenceWitness ==
  \E pk \in DOMAIN pods : \E qk \in DOMAIN pods : \E d \in Dirs :
    /\ Selected(pk, d)
    /\ podChainOf(pods[pk], d) \in DOMAIN chains
    /\ \E e \in sets[vmapOf(d)] : e.Chain = podChainOf(pods[pk], d)
    /\ ~Selected(qk, d)
    /\ pods[qk].IPs # <<>>
    /\ \E nk \in DOMAIN nwps : polChainOf(nwps[nk], d) # NoName

\* The controller c with nothing staged: the state a flush leaves.
Flushed(c) == [c EXCEPT !.staged = <<>>]

\* How often x occurs in the sequence s.
Count(s, x) == Cardinality({i \in DOMAIN s : s[i] = x})

\* The same graph (pod sets of the policies and of the rules) and the same
\* ruleset contents (the rules of every chain, whatever the order of the
\* jumps of a dispatch chain; the elements of every set and verdict map).
SameOutcome(c1, c2) ==
  /\ DOMAIN c1.nwps = DOMAIN c2.nwps
  /\ \A nk \in DOMAIN c1.nwps : c1.nwps[nk].podRefs = c2.nwps[nk].podRefs
  /\ DOMAIN c1.rules = DOMAIN c2.rules
  /\ \A rk \in DOMAIN c1.rules : c1.rules[rk].podRefs = c2.rules[rk].podRefs
  /\ DOMAIN c1.chains = DOMAIN c2.chains
  /\ \A ch \in DOMAIN c1.chains :
       /\ Len(c1.chains[ch]) = Len(c2.chains[ch])
       /\ \A r \in Range(c1.chains[ch]) :
            Count(c1.chains[ch], r) = Count(c2.chains[ch], r)
  /\ c1.sets = c2.sets

\* The handlers as the worker runs them, each followed by a flush. The
\* range over c.nwps takes one of its orders.
DoPod(c, name, pod) == Flushed(SetPod(c, name, pod, SeqOf(DOMAIN c.nwps)))

DoNs(c, name, ns) == Flushed(SetNamespace(c, name, ns))

DoPolicy(c, name, nwp) == Flushed(SetNetworkPolicy(c, name, nwp))

\* C7. Commutativity of independent events: two events with different
\* keys, applied in either order from the same state, yield the same graph
\* and the same ruleset contents.
Commutativity ==
  /\ \A pk \in PodKeys : \A pv \in PodEvents(pk) :
       /\ \A qk \in PodKeys \ {pk} : \A qv \in PodEvents(qk) :
            SameOutcome(DoPod(DoPod(Ctrl, pk, pv), qk, qv),
                        DoPod(DoPod(Ctrl, qk, qv), pk, pv))
       /\ \A nn \in NsNames : \A nv \in NsEvents(nn) :
            SameOutcome(DoNs(DoPod(Ctrl, pk, pv), nn, nv),
                        DoPod(DoNs(Ctrl, nn, nv), pk, pv))
       /\ \A nk \in PolKeys : \A kv \in PolicyEvents(nk) :
            SameOutcome(DoPolicy(DoPod(Ctrl, pk, pv), nk, kv),
                        DoPod(DoPolicy(Ctrl, nk, kv), pk, pv))
  /\ \A nn \in NsNames : \A nv \in NsEvents(nn) :
       /\ \A mm \in NsNames \ {nn} : \A mv \in NsEvents(mm) :
            SameOutcome(DoNs(DoNs(Ctrl, nn, nv), mm, mv),
                        DoNs(DoNs(Ctrl, mm, mv), nn, nv))
       /\ \A nk \in PolKeys : \A kv \in PolicyEvents(nk) :
            SameOutcome(DoPolicy(DoNs(Ctrl, nn, nv), nk, kv),
                        DoNs(DoPolicy(Ctrl, nk, kv), nn, nv))
  /\ \A nk \in PolKeys : \A kv \in PolicyEvents(nk) :
       \A mk \in PolKeys \ {nk} : \A mv \in PolicyEvents(mk) :
         SameOutcome(DoPolicy(DoPolicy(Ctrl, nk, kv), mk, mv),
                     DoPolicy(DoPolicy(Ctrl, mk, mv), nk, kv))

\* C8. Idempotence: the same event applied twice in a row leaves, after
\* the second commit, the ruleset and the reference graph of the first; the
\* second SetPod or SetNamespace stages no operation, the second
\* SetNetworkPolicy rebuilds the policy to an equal result.
Idempotence ==
  /\ \A pk \in PodKeys : \A pv \in PodEvents(pk) :
       \A ord \in Orders(DOMAIN nwps) :
         LET c1 == Flushed(SetPod(Ctrl, pk, pv, ord))
             c2 == SetPod(c1, pk, pv, ord)
         IN c2.staged = <<>> /\ c2 = c1
  /\ \A nn \in NsNames : \A nv \in NsEvents(nn) :
       LET c1 == Flushed(SetNamespace(Ctrl, nn, nv))
           c2 == SetNamespace(c1, nn, nv)
       IN c2.staged = <<>> /\ c2 = c1
  /\ \A nk \in PolKeys : \A kv \in PolicyEvents(nk) :
       LET c1 == Flushed(SetNetworkPolicy(Ctrl, nk, kv))
           c2 == SetNetworkPolicy(c1, nk, kv)
       IN Flushed(c2) = c1

\* The controller of scenario 2: from New, the policy a/p (podSelector {},
\* ingress from podSelector {}), then pod a/x at 10.0.0.1, then pod a/y at
\* 10.0.0.2.
Scenario2 ==
  DoPod(DoPod(DoPolicy(Flushed(New), <<"a", "p">>, Some(PolicyAllowSameNs)),
              <<"a", "x">>,
              Some(PodObject({}, "Running", <<"10.0.0.1">>, <<>>))),
        <<"a", "y">>,
        Some(PodObject({web}, "Running", <<"10.0.0.2">>, <<httpPort>>)))

\* C9. Scenario 2: in the state the scenario's three events lead to from an
\* empty controller, both pods have ingress dispatch chains, vmap_ing maps
\* each address to a jump into the owning pod's ingress chain, and the
\* rule's podips set contains both addresses.
Scenario2Outcome ==
  Ctrl = Scenario2 =>
    /\ \A pk \in {<<"a", "x">>, <<"a", "y">>} :
         /\ pods[pk].ingressChain = PodChainName(objectID(pk[1], pk[2]), "ing")
         /\ pods[pk].ingressChain \in DOMAIN chains
         /\ \A ip \in Range(pods[pk].IPs) :
              [Key |-> ip, Chain |-> pods[pk].ingressChain] \in sets[vmapIng]
    /\ Keys(sets[<<"podips", <<"a", "p">>, "ing", 0>>])
         = Range(pods[<<"a", "x">>].IPs) \cup Range(pods[<<"a", "y">>].IPs)

\* C10. Range Set coverage: after each Add and Subtract with a valid range,
\* the points covered by the intervals the iteration returns are the
\* elements set in the bitmap the same calls were applied to.
RangeCoverage == Covered(rset) = rref

\* Calls have left at least two intervals with uncovered points between
\* and around them.
RangeCoverageWitness ==
  /\ RangesLen(rset) >= 2
  /\ \E x \in 0..RangeMax : x \notin rref /\ x > Min(DOMAIN rset)
  /\ Covered(rset) # {}

\* Two stored intervals with no stored interval between them.
Consecutive(t, k1, k2) ==
  /\ k1 \in DOMAIN t /\ k2 \in DOMAIN t /\ k1 < k2
  /\ ~\E k \in DOMAIN t : k1 < k /\ k < k2

\* C11. Range Set structure: after any sequence of Add and Subtract calls
\* every stored interval has start <= end, and any two consecutive intervals
\* are disjoint and non-adjacent (previous end + 1 < next start); the
\* iteration is in ascending start order by the tree's key order.
RangeStructure ==
  /\ \A k \in DOMAIN rset : k <= rset[k]
  /\ \A k1, k2 \in DOMAIN rset :
       Consecutive(rset, k1, k2) => rset[k1] + 1 < k2

\* The rule compiled from the single ingress entry of the policy at
\* PeerPolKey, and the policy's ingress chain.
PeerRule == <<PeerPolKey, "ing", 0>>

PeerChain == PolChainName(PeerPolKey[1], PeerPolKey[2], "ing")

\* The entry has a named-port request.
HasNamedPort(entry) ==
  \E i \in DOMAIN entry.Ports :
    entry.Ports[i].Port # None /\ entry.Ports[i].Port[1].Type = "String"

\* C12. Named-port rule with empty peers: a policy rule with at least one
\* named-port request and an empty peer list gets a named-port set and its
\* lookup-and-accept rule, and selects every registered pod, of whatever
\* namespace, for membership of the named-port set.
NamedPortEmptyPeers ==
  \A nwp \in EmptyPeerPolicies :
    HasNamedPort(nwp.Ingress[1]) =>
      LET c == DoPolicy(Ctrl, PeerPolKey, Some(nwp))
          r == c.rules[PeerRule]
      IN /\ r.NamedPortSet # NoName
         /\ r.NamedPortSet \in DOMAIN c.sets
         /\ \E rule \in Range(c.chains[PeerChain]) :
              rule.Exprs.lookup = r.NamedPortSet /\ rule.Exprs.verdict = "accept"
         /\ r.podRefs = DOMAIN c.pods

\* The entry is cut short as named-port-only: it has ports, none numbered.
NamedPortOnly(entry) ==
  /\ Len(entry.Ports) > 0
  /\ \A i \in DOMAIN entry.Ports :
       entry.Ports[i].Port # None /\ entry.Ports[i].Port[1].Type = "String"

\* C13. Empty-peer rule emission: for a policy rule whose peer list is
\* empty and which is not cut short as named-port-only, the policy chain
\* holds a rule made of the port and protocol expressions alone, followed by
\* accept (no ports: an unconditional accept).
EmptyPeerEmission ==
  \A nwp \in EmptyPeerPolicies :
    ~NamedPortOnly(nwp.Ingress[1]) =>
      LET c == DoPolicy(Ctrl, PeerPolKey, Some(nwp))
          numbered == SelectSeq(nwp.Ingress[1].Ports,
                                LAMBDA port : port.Port = None
                                              \/ port.Port[1].Type = "Int")
      IN \E rule \in Range(c.chains[PeerChain]) :
           /\ rule.Exprs.verdict = "accept"
           /\ rule.Exprs.lookup = NoName
           /\ rule.Exprs.anon = <<>>
           /\ (numbered = <<>> => rule.Exprs.match = <<>>)
           /\ (numbered # <<>> => rule.Exprs.match # <<>>)

\* What a peer of a policy of namespace selNs selects: the pod-selector part
\* matches the pod's labels (a nil one beside a namespaceSelector matches
\* all), and the pod is in the policy's namespace when the peer has no
\* namespaceSelector, in a namespace whose labels match it otherwise.
PeerSelects(peer, pod, selNs, nss) ==
  /\ peer.PodSelector # None => peer.PodSelector[1] \subseteq pod.Labels
  /\ IF peer.NamespaceSelector = None
     THEN pod.Namespace = selNs
     ELSE /\ pod.Namespace \in DOMAIN nss
          /\ peer.NamespaceSelector[1] \subseteq nss[pod.Namespace].Labels

\* C14. Peer-selector semantics: a peer with both selectors nil compiles to
\* no selector; any other peer compiles to one selector, which matches a
\* registered pod exactly when the peer selects it in the sense above.
PeerSelectorSemantics ==
  \A nwp \in OnePeerPolicies :
    LET c == DoPolicy(Ctrl, PeerPolKey, Some(nwp))
        peer == nwp.Ingress[1].From[1]
        sels == c.rules[PeerRule].PodSelectors
    IN IF peer.NamespaceSelector = None /\ peer.PodSelector = None
       THEN sels = <<>>
       ELSE /\ Len(sels) = 1
            /\ \A pk \in DOMAIN c.pods :
                 Matches(sels[1], c.pods[pk], PeerPolKey[1], c.namespaces)
                   <=> PeerSelects(peer, c.pods[pk], PeerPolKey[1], c.namespaces)

PodEqualityExact ==
  eqResult <=>
    /\ eqB.Namespace = eqA.Namespace
    /\ eqB.ID = eqA.ID
    /\ eqB.Labels = eqA.Labels
    /\ eqB.NamedPorts = eqA.NamedPorts
    /\ \A ip \in Range(eqA.IPs) \cup Range(eqB.IPs) :
         Count(eqB.IPs, ip) = Count(eqA.IPs, ip)

\* C17. Policy add/delete round trip: from a state in which a key has no
\* policy, SetNetworkPolicy of a policy under that key followed by
\* SetNetworkPolicy of nil restores the state: the maps of the controller,
\* the chains with their rules, and the elements of every set and verdict
\* map are as before.
PolicyRoundTrip ==
  \A nk \in PolKeys \ DOMAIN nwps : \A nwp \in PolicyInputs(nk) :
    DoPolicy(DoPolicy(Ctrl, nk, Some(nwp)), nk, None) = Ctrl

\* C18. Commit grouping: no Flush is issued before all three informers have
\* synced and every item of the initial lists has been processed; the first
\* batch sent holds the replacement of the tables, staged by New, and the
\* mutations of every item of the initial lists.
CommitGrouping ==
  commits # <<>> =>
    /\ UpstreamHasSynced
    /\ initialList \subseteq processed
    /\ commits[1].batch[1] = Tables
    /\ \A item \in initialList :
         /\ <<item, "first">> \in Range(commits[1].batch)
         /\ <<item, "rest">> \in Range(commits[1].batch)

\* The first batch has been sent, all three initial lists were non-empty,
\* and the worker had handled a later event as well by then.
CommitGroupingWitness ==
  /\ commits # <<>>
  /\ initialList = WorkItems
  /\ Len(commits[1].batch) > 1 + 2 * Cardinality(WorkItems)

\* C19. Event atomicity: every batch sent by a Flush, the worker's or
\* main's, holds whole events only: for every item as many first parts as
\* rests.
EventAtomicity ==
  \A n \in DOMAIN commits : \A item \in WorkItems :
    Count(commits[n].batch, <<item, "first">>)
      = Count(commits[n].batch, <<item, "rest">>)

\* C20. Per-item commit and retry: an item whose Flush has failed is in the
\* queue again when the worker turns to the next item, so that its
\* mutations are committed by a later Flush.
RetryOnFailure ==
  (wpc = "get" /\ flushErr) => witem \in Range(q)

\* C21. Shutdown: when main returns after shutting the queue down, no work
\* item is in flight: the worker is waiting for an item or has returned;
\* and once the queue is shut down the worker takes no new work item.
ShutdownCompletes ==
  /\ [](mpc = "returned" => wpc \in {"get", "stopped"})
  /\ [][shutDown => ~(wpc = "get" /\ wpc' = "stage")]_vars

\* Nothing of the policy is in the controller: no Policy, no Rule, no chain
\* or set bearing its name, and no pod that refers to it.
PolicyAbsent(key) ==
  /\ key \notin DOMAIN nwps
  /\ \A rk \in DOMAIN rules : rk[1] # key
  /\ \A ch \in DOMAIN chains : ~(ch[1] = "pol" /\ ch[2] = key)
  /\ \A st \in DOMAIN sets : st[2] # key
  /\ \A pk \in DOMAIN pods :
       key \notin DOMAIN pods[pk].ingressPolicyRefs
                     \cup DOMAIN pods[pk].egressPolicyRefs

\* The object last delivered is a policy whose pod selector is malformed.
MalformedDelivered == lastNwp # None /\ createNWPErr(lastNwp[1]) # NoError

\* C22. Fatal policy failure: after SetNetworkPolicy for a policy whose
\* policy-level pod selector is malformed, none of the policy's chains,
\* sets or references exists, and the call has surfaced the failure: it
\* returned an error or recorded an InvalidPolicy event.
FatalPolicyFailure ==
  MalformedDelivered =>
    /\ PolicyAbsent(PeerPolKey)
    /\ lastErr # NoError \/ "InvalidPolicy" \in Range(lastEvents)

\* A peer that is not valid: an ipBlock combined with a namespace or pod
\* selector, a CIDR that does not parse, a selector that is malformed.
InvalidPeer(src) ==
  \/ src.IPBlock # None /\ (src.NamespaceSelector # None \/ src.PodSelector # None)
  \/ src.IPBlock # None /\ ParsePrefix(src.IPBlock[1].CIDR) = None
  \/ LabelSelectorErr(src.NamespaceSelector)
  \/ LabelSelectorErr(src.PodSelector)

\* A port that is not valid: its protocol is unknown, or its number or end
\* is outside 0..65535, or its end is below its number.
InvalidPort(port) ==
  \/ port.Protocol # None /\ port.Protocol[1] \notin {"TCP", "UDP", "SCTP"}
  \/ /\ port.Port # None
     /\ port.Port[1].Type = "Int"
     /\ \/ port.Port[1].IntVal \notin 0..MaxUint16
        \/ port.EndPort # None /\ port.EndPort[1] \notin 0..MaxUint16
        \/ port.EndPort # None /\ port.EndPort[1] < port.Port[1].IntVal

ValidPeer(src) == ~InvalidPeer(src)

ValidPort(port) == ~InvalidPort(port)

\* The policy without the invalid peers and ports of its ingress entries.
ValidOnly(nwp) ==
  [nwp EXCEPT !.Ingress =
     [i \in DOMAIN @ |->
        [@[i] EXCEPT !.From = SelectSeq(@, ValidPeer),
                     !.Ports = SelectSeq(@, ValidPort)]]]

\* The invalid peers and ports of the ingress entries, counted.
NInvalid(nwp) ==
  LET n(i) == Len(nwp.Ingress[i].From) - Len(SelectSeq(nwp.Ingress[i].From, ValidPeer))
                + Len(nwp.Ingress[i].Ports)
                - Len(SelectSeq(nwp.Ingress[i].Ports, ValidPort))
      sum[i \in 0..Len(nwp.Ingress)] == IF i = 0 THEN 0 ELSE sum[i - 1] + n(i)
  IN sum[Len(nwp.Ingress)]

\* The controller after the step.
CtrlNext ==
  [namespaces |-> namespaces', pods |-> pods', nwps |-> nwps', rules |-> rules',
   chains |-> chains', sets |-> sets', staged |-> <<>>]

\* The step delivers a policy that createNWP compiles.
Compiles == lastNwp' # lastNwp /\ lastNwp' # None
              /\ createNWPErr(lastNwp'[1]) = NoError

\* C23. Validation failures never abort a rule: when a policy is compiled,
\* every invalid peer and port of its entry is passed over with one event
\* each, no error is returned, and the controller is left as if the policy
\* had been delivered without its invalid peers and ports.
ValidationNeverAborts ==
  [][Compiles =>
       /\ lastErr' = NoError
       /\ Len(lastEvents') = NInvalid(lastNwp'[1])
       /\ CtrlNext = DoPolicy(Ctrl, PeerPolKey, Some(ValidOnly(lastNwp'[1])))]_vars

\* The entry lists ports and none of them is valid.
AllPortsInvalid(nwp) ==
  nwp.Ingress[1].Ports # <<>> /\ SelectSeq(nwp.Ingress[1].Ports, ValidPort) = <<>>

\* The protocol of a port entry: TCP where none is given.
ProtocolOf(port) ==
  LET name == IF port.Protocol = None THEN "TCP" ELSE port.Protocol[1]
  IN CASE name = "TCP" -> 6 [] name = "UDP" -> 17 [] name = "SCTP" -> 132
       [] OTHER -> 0

\* The numbered range a port entry asks for: none for an entry with a name,
\* with an unknown protocol, with a number or an end outside 0..65535 or
\* with an end below its number; 0..65535 for an entry without a port.
RequestedRange(port) ==
  IF InvalidPort(port) THEN <<>>
  ELSE IF port.Port = None
  THEN <<[Protocol |-> ProtocolOf(port), Port |-> 0, EndPort |-> 65535]>>
  ELSE IF port.Port[1].Type = "String" THEN <<>>
  ELSE <<[Protocol |-> ProtocolOf(port), Port |-> port.Port[1].IntVal,
          EndPort |-> IF port.EndPort = None THEN port.Port[1].IntVal
                      ELSE port.EndPort[1]]>>

\* The named-port request of a port entry.
RequestedName(port) ==
  IF ~InvalidPort(port) /\ port.Port # None /\ port.Port[1].Type = "String"
  THEN <<[PortName |-> port.Port[1].StrVal, Protocol |-> ProtocolOf(port)]>>
  ELSE <<>>

RECURSIVE Requested(_, _)
\* The requests of a list of ports, in order; kind is "range" or "name".
Requested(ports, kind) ==
  IF ports = <<>> THEN <<>>
  ELSE (IF kind = "range" THEN RequestedRange(Head(ports))
        ELSE RequestedName(Head(ports))) \o Requested(Tail(ports), kind)

\* C24. Port classification: the numbered ranges classifyPorts accepts are
\* those requested by the entries that are in 0..65535 and in order, with
\* 0..65535 for an entry without a port and TCP where no protocol is
\* given; the named ports are those of the entries with a name; every
\* accepted range has 0 <= start <= end <= 65535.
PortClassification ==
  portsCall # None =>
    /\ portsCall[1].acc.portProtos = Requested(portsCall[1].ports, "range")
    /\ portsCall[1].acc.dynPorts = Requested(portsCall[1].ports, "name")
    /\ \A i \in DOMAIN portsCall[1].acc.portProtos :
         LET r == portsCall[1].acc.portProtos[i]
         IN 0 <= r.Port /\ r.Port <= r.EndPort /\ r.EndPort <= 65535

\* The addresses of a CIDR: those that agree with its address on the first
\* bits.
CidrAddrs(cidr) ==
  {a \in 0..(AddrSpace - 1) :
     a \div 2^(AddrBits - cidr[2]) = cidr[1] \div 2^(AddrBits - cidr[2])}

ParsesCidr(cidr) == cidr[2] \in 0..AddrBits

\* The addresses a peer permits: those of its CIDR that are in none of its
\* except values; none for a peer that is not a valid ipBlock.
PeerAddrs(src) ==
  IF InvalidPeer(src) \/ src.IPBlock = None THEN {}
  ELSE CidrAddrs(src.IPBlock[1].CIDR)
         \ UNION {CidrAddrs(src.IPBlock[1].Except[i]) :
                    i \in {j \in DOMAIN src.IPBlock[1].Except :
                             ParsesCidr(src.IPBlock[1].Except[j])}}

RECURSIVE IntervalPairs(_)
\* The element pairs of the ranges of a tree in order: for [s, e] the start
\* s and the interval end e + 1.
IntervalPairs(t) ==
  IF DOMAIN t = {} THEN <<>>
  ELSE LET s == Min(DOMAIN t)
       IN <<[Key |-> s, IntervalEnd |-> FALSE],
            [Key |-> t[s] + 1, IntervalEnd |-> TRUE]>>
            \o IntervalPairs(MapDel(t, s))

\* C25. ipBlock lowering: the permitted ranges cover exactly the union over
\* the valid ipBlock peers of the addresses of the CIDR that are in none of
\* that peer's except values, and each range [s, e] is emitted as the
\* elements start s and interval end e + 1.
BlockLowering ==
  blocksCall # None =>
    /\ Covered(blocksCall[1].permitted)
         = UNION {PeerAddrs(blocksCall[1].peers[i]) : i \in DOMAIN blocksCall[1].peers}
    /\ blocksCall[1].elems = IntervalPairs(blocksCall[1].permitted)

\* A policy that createNWP compiles has been delivered last.
Compiled == lastNwp # None /\ createNWPErr(lastNwp[1]) = NoError

\* The numbered ports accepted from the policy's entry.
AcceptedPorts ==
  classifyPorts(lastNwp[1].Ingress[1].Ports,
                [dynPorts |-> <<>>, portProtos |-> <<>>]).portProtos

\* The rules of the policy's ingress chain that accept a peer group on the
\* numbered ports: the lookup in the ipBlock set and in the podips set.
PeerGroupRules ==
  LET ch == chains[PolChainName("a", "p", "ing")]
  IN {ch[i].Exprs : i \in {j \in DOMAIN ch : /\ ch[j].Exprs.verdict = "accept"
                                              /\ ch[j].Exprs.match # <<"named">>}}

\* The accepted ranges as the elements of an interval set.
PortRangeElems(accepted) ==
  [i \in DOMAIN accepted |->
     [Key |-> <<accepted[i].Protocol, accepted[i].Port>>,
      KeyEnd |-> <<accepted[i].Protocol, accepted[i].EndPort>>,
      KeyLen |-> 8, ValLen |-> 0]]

\* The port expressions of a rule: nothing without numbered ports; the
\* protocol compare, with the port compare for one port, when the only
\* entry is one port or 0..65535; otherwise the lookup in an anonymous
\* set that holds the accepted ranges in the table of either family.
ShortcutOrLookup(accepted) ==
  IF accepted = <<>> THEN <<>>
  ELSE IF Len(accepted) = 1 /\ accepted[1].Port = 0 /\ accepted[1].EndPort = 65535
  THEN <<"cmp", accepted[1].Protocol>>
  ELSE IF Len(accepted) = 1 /\ accepted[1].Port = accepted[1].EndPort
  THEN <<"cmp", accepted[1].Protocol, accepted[1].Port>>
  ELSE <<"lookup", PortRangeElems(accepted), PortRangeElems(accepted)>>

\* C26. Numbered-port shortcut: every rule of a compiled entry that accepts
\* a peer group carries, for a single accepted entry that is one port or
\* 0..65535, the protocol compare (and the port compare for one port) and
\* no anonymous port set; in every other case with numbered ports, the
\* lookup in an anonymous interval set holding exactly the accepted
\* ranges.
PortShortcut ==
  Compiled => \A e \in PeerGroupRules : e.match = ShortcutOrLookup(AcceptedPorts)

\* The key of the set's elements does not depend on the address family:
\* the set declares no separate v6 key type.
FamilyIndependent(set) == set.type.KeyBytes6 = 0

\* An element is meaningful in the v4 instance of the set, in the v6
\* instance: by the length of its address for a key with an address, in
\* both for a key that does not depend on the family.
MeantFor4(set, val) == val.KeyLen = set.type.KeyBytes

MeantFor6(set, val) ==
  IF FamilyIndependent(set) THEN val.KeyLen = set.type.KeyBytes
  ELSE val.KeyLen = set.type.KeyBytes6

\* C29. Dual-family lockstep: splitVals delivers every element to exactly
\* the instances of the set in which it is meaningful, an element of the
\* protocol/port set to both, and panics on a key of any other length.
DualFamilyLockstep ==
  splitCall # None =>
    LET set == splitCall[1].set
        vals == splitCall[1].vals
        out == splitCall[1].out
        For4(val) == MeantFor4(set, val)
        For6(val) == MeantFor6(set, val)
    IN /\ out.panic = (\E i \in DOMAIN vals : ~For4(vals[i]) /\ ~For6(vals[i]))
       /\ ~out.panic => /\ out.vals4 = SelectSeq(vals, For4)
                        /\ out.vals6 = SelectSeq(vals, For6)

\* C30. Range Set rejects bad ranges: a call of Add or Subtract with a
\* range whose end is below its start panics and leaves the stored
\* intervals as they were.
RejectsBadRanges ==
  [][(rangeCall' # None /\ rangeCall'[1].a.End < rangeCall'[1].a.Start) =>
       rangeCall'[1].panic /\ rset' = rset]_vars

\* Add or Subtract has panicked on a range set that holds intervals.
RejectsBadRangesWitness ==
  /\ rangeCall # None
  /\ rangeCall[1].panic
  /\ rangeCall[1].a.End < rangeCall[1].a.Start
  /\ RangesLen(rset) > 1

\* C28. Name length: the object-id is namespace, "_" and name when these
\* are at most 128 bytes and the UID otherwise, and every chain and set
\* name emitted for the pod and the policy is at most 128 bytes.
NameLength ==
  nameCall # None =>
    /\ nameCall[1].id.uid = (nameCall[1].nsLen + 1 + nameCall[1].nameLen > 128)
    /\ ~nameCall[1].id.uid =>
         nameCall[1].id.len = nameCall[1].nsLen + 1 + nameCall[1].nameLen
    /\ \A n \in nameCall[1].names : n <= 128

\* A selector of a rule selects the pod when the pod's namespace has these
\* labels.
SelectsUnder(r, pm, labels) ==
  \E i \in DOMAIN r.PodSelectors :
    /\ IF r.PodSelectors[i].NamespaceSelector = Nothing
       THEN r.Namespace = pm.Namespace
       ELSE SelMatches(r.PodSelectors[i].NamespaceSelector, labels)
    /\ SelMatches(r.PodSelectors[i].PodSelector, pm.Labels)

\* The namespace selector i of the rule matches these labels.
NsSelMatches(r, i, labels) ==
  /\ r.PodSelectors[i].NamespaceSelector # Nothing
  /\ SelMatches(r.PodSelectors[i].NamespaceSelector, labels)

\* The elements of set name in controller c; none for no set.
ElemsOf(c, name) == IF name = NoName THEN {} ELSE c.sets[name]

\* The pods of namespace n among the pods of rule r that no selector of r
\* selects once n has these labels.
Unselected(r, n, labels) ==
  {pk \in r.podRefs : pods[pk].Namespace = n /\ ~SelectsUnder(r, pods[pk], labels)}

\* The effect on rule rk of SetNamespace giving registered namespace n the
\* labels of ns; c2 is the controller after the call.
FlipEffect(n, ns, rk, c2) ==
  LET r == rules[rk]
      old == namespaces[n].Labels
      same == \A i \in DOMAIN r.PodSelectors :
                NsSelMatches(r, i, old) = NsSelMatches(r, i, ns.Labels)
      off == \E i \in DOMAIN r.PodSelectors :
               NsSelMatches(r, i, old) /\ ~NsSelMatches(r, i, ns.Labels)
      on == \E i \in DOMAIN r.PodSelectors :
              ~NsSelMatches(r, i, old) /\ NsSelMatches(r, i, ns.Labels)
      gone == Unselected(r, n, ns.Labels)
  IN /\ same =>
          /\ c2.rules[rk] = r
          /\ ElemsOf(c2, r.PodIPSet) = ElemsOf(Ctrl, r.PodIPSet)
          /\ ElemsOf(c2, r.NamedPortSet) = ElemsOf(Ctrl, r.NamedPortSet)
     /\ off =>
          \A pk \in gone :
            /\ pk \notin c2.rules[rk].podRefs
            /\ rk \notin c2.pods[pk].ruleRefs
            /\ Range(ipElements(pods[pk])) \cap ElemsOf(c2, r.PodIPSet) = {}
            /\ Range(namedPortElements(pods[pk], r.NamedPortMeta))
                 \cap ElemsOf(c2, r.NamedPortSet) = {}
     /\ (off /\ ~on) =>
          /\ c2.rules[rk].podRefs = r.podRefs \ gone
          /\ ElemsOf(c2, r.PodIPSet)
               = ElemsOf(Ctrl, r.PodIPSet)
                   \ UNION {Range(ipElements(pods[pk])) : pk \in gone}
          /\ ElemsOf(c2, r.NamedPortSet)
               = ElemsOf(Ctrl, r.NamedPortSet)
                   \ UNION {Range(namedPortElements(pods[pk], r.NamedPortMeta)) :
                              pk \in gone}

\* C27. Namespace label flip: when SetNamespace changes the labels of a
\* namespace so that a namespace selector of a rule no longer matches it,
\* every pod of the namespace that no selector of the rule selects any
\* longer is removed from the rule's pod set, once, and its addresses and
\* named-port tuples from the rule's sets; a rule whose selectors match the
\* namespace as before keeps its pod set and its set elements.
LabelFlip ==
  \A n \in DOMAIN namespaces : \A ns \in NsInputs(n) :
    ns.Labels # namespaces[n].Labels =>
      \A rk \in DOMAIN rules : FlipEffect(n, ns, rk, DoNs(Ctrl, n, Some(ns)))

\* A namespace can lose the label a rule's namespace selector asks for
\* while a pod of it with an address and a named port is in the rule's
\* pod set and in its sets, and another rule has no namespace selector.
LabelFlipWitness ==
  \E n \in DOMAIN namespaces : \E ns \in NsInputs(n) : \E rk, rj \in DOMAIN rules :
    /\ ns.Labels # namespaces[n].Labels
    /\ \E i \in DOMAIN rules[rk].PodSelectors :
         NsSelMatches(rules[rk], i, namespaces[n].Labels)
           /\ ~NsSelMatches(rules[rk], i, ns.Labels)
    /\ \E pk \in Unselected(rules[rk], n, ns.Labels) :
         /\ Range(ipElements(pods[pk])) \cap ElemsOf(Ctrl, rules[rk].PodIPSet) # {}
         /\ Range(namedPortElements(pods[pk], rules[rk].NamedPortMeta))
              \cap ElemsOf(Ctrl, rules[rk].NamedPortSet) # {}
    /\ rj # rk
    /\ rules[rj].podRefs # {}

-----------------------------------------------------------------------------
(* Pods that are neither Running nor Pending. *)

\* Pod objects in a terminal or unknown phase that still report addresses,
\* labels and a named container port.
TerminalPods ==
  {PodObject({web}, phase, <<"10.0.0.1", "10.0.0.2">>, <<httpPort>>) :
     phase \in {"Succeeded", "Failed", "Unknown"}}

\* The addresses the status of a pod object reports.
StatusAddrs(pod) == UNION {Range(ParseAddr(s)) : s \in Range(pod.PodIPs)}

\* The addresses the elements of rule r's pod-IP set and named-port set are
\* about, in controller c.
RuleSetAddrs(c, r) ==
  (IF r.PodIPSet = NoName THEN {} ELSE {e.Key : e \in c.sets[r.PodIPSet]})
    \cup (IF r.NamedPortSet = NoName THEN {}
          ELSE {e.Key[3] : e \in c.sets[r.NamedPortSet]})

\* In controller c, pod pk contributes no address: it holds none, no
\* verdict-map entry jumps to one of its dispatch chains, and every element
\* of a rule's sets about an address of its status belongs to another
\* contributing pod of that rule.
NoAddrOf(c, pk, pod) ==
  /\ c.pods[pk].IPs = <<>>
  /\ \A d \in Dirs : \A e \in c.sets[vmapOf(d)] :
       e.Chain # PodChainName(objectID(pk[1], pk[2]), d)
  /\ \A rk \in DOMAIN c.rules :
       \A ip \in RuleSetAddrs(c, c.rules[rk]) \cap StatusAddrs(pod) :
         \E qk \in c.rules[rk].podRefs \ {pk} : ip \in Range(c.pods[qk].IPs)

\* In controller c, pod pk is selected and dispatched by its labels: it is
\* in the pod set of exactly the policies whose selector matches it, and it
\* has a d-dispatch chain with a jump per such policy exactly when one of
\* them has a d-chain.
SelectedByLabels(c, pk) ==
  LET pm == c.pods[pk]
      selects(nk) == /\ c.nwps[nk].Namespace = pm.Namespace
                     /\ SelMatches(c.nwps[nk].PodSelector, pm.Labels)
  IN /\ \A nk \in DOMAIN c.nwps : pk \in c.nwps[nk].podRefs <=> selects(nk)
     /\ \A d \in Dirs :
          LET with == {nk \in DOMAIN c.nwps :
                        selects(nk) /\ polChainOf(c.nwps[nk], d) # NoName}
          IN /\ podChainOf(pm, d) # NoName <=> with # {}
             /\ podChainOf(pm, d) # NoName => podChainOf(pm, d) \in DOMAIN c.chains
             /\ DOMAIN policyRefsOf(pm, d) = with
             /\ \A nk \in with :
                  /\ policyRefsOf(pm, d)[nk].Exprs.target = polChainOf(c.nwps[nk], d)
                  /\ policyRefsOf(pm, d)[nk] \in Range(c.chains[podChainOf(pm, d)])

\* C31. Pod phase normalization: from every reachable state, SetPod of a
\* pod whose phase is neither Running nor Pending, whether the pod is new or
\* was registered before, leaves no verdict-map entry and no pod-IP or
\* named-port element on account of that pod, while the pod is still in the
\* pod set of the policies that select it by labels and has its dispatch
\* chains with their jumps.
PhaseNormalization ==
  \A pk \in PodKeys : \A pod \in TerminalPods :
    LET c2 == DoPod(Ctrl, pk, Some(pod))
    IN NoAddrOf(c2, pk, pod) /\ SelectedByLabels(c2, pk)

\* A registered pod without addresses, which only a pod outside Running and
\* Pending is, has a dispatch chain with a jump, while a rule with a pod-IP
\* set holds the address of another pod.
PhaseNormalizationWitness ==
  \E pk \in DOMAIN pods : \E rk \in DOMAIN rules :
    /\ pods[pk].IPs = <<>>
    /\ pods[pk].ingressChain \in DOMAIN chains
    /\ DOMAIN pods[pk].ingressPolicyRefs # {}
    /\ rules[rk].PodIPSet # NoName
    /\ sets[rules[rk].PodIPSet] # {}

-----------------------------------------------------------------------------
(* The shape of the dispatch chains. *)

\* The registered policies with a d-chain that select pod pk.
SelectingPolicies(pk, d) ==
  {nk \in DOMAIN nwps :
     polChainOf(nwps[nk], d) # NoName /\ nwpSelectsPod(nwps[nk], pods[pk])}

\* The jump rule of chain ch into policy nk's d-chain.
JumpRule(ch, nk, d) ==
  [Chain |-> ch, Exprs |-> VerdictJump(polChainOf(nwps[nk], d))]

\* The chains of the ruleset that are pod dispatch chains.
PodChains == {ch \in DOMAIN chains : ch[1] = "pod"}

\* C32. Dispatch-chain shape: in every reachable state, every pod dispatch
\* chain of the ruleset is the d-chain of a registered pod and consists of
\* exactly one jump rule per policy that selects the pod in direction d,
\* followed by the reject-administrative rule as its last rule.
DispatchChainShape ==
  \A ch \in PodChains :
    \E pk \in DOMAIN pods : \E d \in Dirs :
      LET rs == chains[ch]
          S == SelectingPolicies(pk, d)
      IN /\ podChainOf(pods[pk], d) = ch
         /\ Len(rs) = Cardinality(S) + 1
         /\ rs[Len(rs)] = [Chain |-> ch, Exprs |-> rejectAdministrative]
         /\ \A nk \in S : Count(rs, JumpRule(ch, nk, d)) = 1
         /\ \A i \in 1..(Len(rs) - 1) : \E nk \in S : rs[i] = JumpRule(ch, nk, d)

\* A dispatch chain holds the jumps of two policies above its reject rule,
\* while another registered pod has a dispatch chain with one jump.
DispatchChainShapeWitness ==
  \E ch \in PodChains : \E ch2 \in PodChains :
    /\ Len(chains[ch]) = 3
    /\ chains[ch][1].Exprs.verdict = "jump"
    /\ chains[ch][2].Exprs.verdict = "jump"
    /\ chains[ch][3].Exprs.verdict = "reject"
    /\ Len(chains[ch2]) = 2

-----------------------------------------------------------------------------
(* Deleting a namespace. *)

\* C33. Namespace deletion frame: from every reachable state, SetNamespace
\* (name, nil) for a registered namespace removes the namespace entry and
\* nothing else: it stages no ruleset operation and leaves every rule with
\* its contributing pods, every set with its elements, every chain and every
\* back-reference of the pods and policies as they were.
NamespaceDeletionFrame ==
  \A n \in DOMAIN namespaces :
    LET c2 == SetNamespace(Ctrl, n, None)
    IN /\ c2.namespaces = MapDel(namespaces, n)
       /\ c2.staged = <<>>
       /\ c2.rules = rules
       /\ c2.sets = sets
       /\ c2.chains = chains
       /\ c2.pods = pods
       /\ c2.nwps = nwps

\* A namespace has been deleted while a pod of it still contributes its
\* address to a rule that selects by namespace labels.
NamespaceDeletionFrameWitness ==
  \E rk \in DOMAIN rules : \E pk \in rules[rk].podRefs :
    /\ pods[pk].Namespace \notin DOMAIN namespaces
    /\ \E i \in DOMAIN rules[rk].PodSelectors :
         rules[rk].PodSelectors[i].NamespaceSelector # Nothing
    /\ rules[rk].PodIPSet # NoName
    /\ Range(pods[pk].IPs) \cap Keys(sets[rules[rk].PodIPSet]) # {}

-----------------------------------------------------------------------------
(* The layout of the named-port key. *)

\* C34. Named-port key layout agreement: the fields of the named-port key
\* come in the order (protocol, port, address) in the key type the set
\* declares, in the registers the lookup rule loads and in the elements
\* built for a pod, so that the key looked up for a packet to a pod's named
\* port equals the element built for that pod.
KeyLayoutAgreement ==
  keyCall # None =>
    LET k == keyCall[1]
        declared == [i \in DOMAIN k.declared.Fields |-> TypeField(k.declared.Fields[i])]
    IN /\ declared = <<"proto", "port", "ip">>
       /\ namedPortLoadFields = <<"proto", "port", "ip">>
       /\ namedPortKeyFields = <<"proto", "port", "ip">>
       /\ Len(k.elem) = k.declared.Bytes
       /\ k.looked = k.elem

-----------------------------------------------------------------------------
(* Referential integrity of the ruleset along the staged operations. *)

\* The ruleset of controller c, with nothing staged.
Ruleset(c) == [chains |-> c.chains, sets |-> c.sets, staged |-> <<>>]

\* The ruleset after the staged operation op.
ApplyOp(K, op) ==
  CASE op[1] = "AddChain" -> AddChain(K, op[2])
    [] op[1] = "DelChain" -> DelChain(K, op[2])
    [] op[1] = "AddRule" -> AddRule(K, op[2])
    [] op[1] = "InsertRule" -> InsertRule(K, op[2])
    [] op[1] = "DelRule" -> DelRule(K, op[2])
    [] op[1] = "AddSet" -> AddSet(K, op[2], op[3])
    [] op[1] = "DelSet" -> DelSet(K, op[2])
    [] op[1] = "SetAddElements" -> SetAddElements(K, op[2], op[3])
    [] op[1] = "SetDeleteElements" -> SetDeleteElements(K, op[2], op[3])

\* Every verdict-map entry and every jump rule of ruleset K targets a chain
\* of K, and every lookup rule refers to a set of K.
Intact(K) ==
  /\ \A d \in Dirs : \A e \in K.sets[vmapOf(d)] : e.Chain \in DOMAIN K.chains
  /\ \A ch \in DOMAIN K.chains : \A r \in Range(K.chains[ch]) :
       /\ r.Exprs.verdict = "jump" => r.Exprs.target \in DOMAIN K.chains
       /\ r.Exprs.lookup # NoName => r.Exprs.lookup \in DOMAIN K.sets

\* The object that op acts on is in ruleset K, and the object that op
\* creates is not: no operation on something deleted earlier, no creation
\* of a name whose old object has not been deleted.
OpIsLive(K, op) ==
  CASE op[1] = "AddChain" -> op[2] \notin DOMAIN K.chains
    [] op[1] = "DelChain" -> op[2] \in DOMAIN K.chains
    [] op[1] \in {"AddRule", "InsertRule"} ->
         /\ op[2].Chain \in DOMAIN K.chains
         /\ op[2].Exprs.verdict = "jump" => op[2].Exprs.target \in DOMAIN K.chains
         /\ op[2].Exprs.lookup # NoName => op[2].Exprs.lookup \in DOMAIN K.sets
    [] op[1] = "DelRule" ->
         /\ op[2].Chain \in DOMAIN K.chains
         /\ op[2] \in Range(K.chains[op[2].Chain])
    [] op[1] = "AddSet" -> op[2] \notin DOMAIN K.sets
    [] op[1] = "DelSet" -> op[2] \in DOMAIN K.sets
    [] op[1] \in {"SetAddElements", "SetDeleteElements"} -> op[2] \in DOMAIN K.sets

\* Operation op leaves no reference of the intact ruleset K dangling: a
\* chain is deleted only when no verdict-map entry and no jump rule outside
\* it targets it, a set only when no rule looks it up, and an entry added
\* to a verdict map targets a chain of K. The other operations add no
\* reference (OpIsLive covers the rule that is added) and remove no object.
OpKeepsIntact(K, op) ==
  CASE op[1] = "DelChain" ->
         /\ \A d \in Dirs : \A e \in K.sets[vmapOf(d)] : e.Chain # op[2]
         /\ \A ch \in DOMAIN K.chains \ {op[2]} : \A r \in Range(K.chains[ch]) :
              r.Exprs.target # op[2]
    [] op[1] = "DelSet" ->
         \A ch \in DOMAIN K.chains : \A r \in Range(K.chains[ch]) :
           r.Exprs.lookup # op[2]
    [] op[1] = "SetAddElements" /\ op[2] \in {vmapIng, vmapEg} ->
         \A e \in Range(op[3]) : e.Chain \in DOMAIN K.chains
    [] OTHER -> TRUE

RECURSIVE ReplayIntact(_, _)
\* Every operation of ops, applied in order from the intact ruleset K, is
\* live and keeps the ruleset intact.
ReplayIntact(K, ops) ==
  IF ops = <<>> THEN TRUE
  ELSE /\ OpIsLive(K, Head(ops))
       /\ OpKeepsIntact(K, Head(ops))
       /\ ReplayIntact(ApplyOp(K, Head(ops)), Tail(ops))

\* Along what any handler stages for any event of the model, from the
\* current state, the ruleset stays intact.
EventsReplayIntact ==
  /\ \A name \in PodKeys : \A pod \in PodEvents(name) :
       \A ord \in Orders(DOMAIN nwps) :
         ReplayIntact(Ruleset(Ctrl), SetPod(Ctrl, name, pod, ord).staged)
  /\ \A name \in NsNames : \A ns \in NsEvents(name) :
       ReplayIntact(Ruleset(Ctrl), SetNamespace(Ctrl, name, ns).staged)
  /\ \A name \in PolKeys : \A nwp \in PolicyEvents(name) :
       ReplayIntact(Ruleset(Ctrl), SetNetworkPolicy(Ctrl, name, nwp).staged)

\* C35. Referential integrity of the staged ruleset: after every event the
\* ruleset is intact, and along the operations any event stages from there
\* it stays intact after each operation, with every operation acting on an
\* object that exists and every creation following the deletion of the old
\* object of that name.
StagedIntegrity ==
  /\ Intact(Ruleset(Ctrl))
  /\ EventsReplayIntact

\* The update of a policy from here deletes a dispatch chain, the policy's
\* chain and a set of one of its rules, and creates chains and a set of the
\* same names.
StagedIntegrityWitness ==
  \E nk \in DOMAIN nwps : \E nwp \in PolicyInputs(nk) :
    LET ops == SetNetworkPolicy(Ctrl, nk, Some(nwp)).staged
        at(kind, first) == {i \in DOMAIN ops : ops[i][1] = kind /\ ops[i][2][1] = first}
    IN /\ \E i \in at("DelChain", "pod") : \E j \in at("AddChain", "pod") :
            i < j /\ ops[i][2] = ops[j][2]
       /\ \E i \in at("DelChain", "pol") : \E j \in at("AddChain", "pol") :
            i < j /\ ops[i][2] = ops[j][2]
       /\ \E i \in at("DelSet", "podips") : \E j \in at("AddSet", "podips") :
            i < j /\ ops[i][2] = ops[j][2]
       /\ \E i \in DOMAIN ops : ops[i][1] = "SetDeleteElements"

-----------------------------------------------------------------------------
(* The graph of back-references. *)

\* The rules of the registered policies.
PolicyRules ==
  UNION {Range(nwps[nk].IngressRuleMeta) \cup Range(nwps[nk].EgressRuleMeta) :
           nk \in DOMAIN nwps}

\* C36. Back-reference graph consistency: after every event, a registered
\* rule is in a registered pod's rule back-references if and only if the
\* pod is in the rule's contributing pods; the pod sets of the policies and
\* rules hold registered pods only, the back-references of the pods hold
\* registered rules and policies only, and the rule registry holds exactly
\* the ingress and egress rules of the registered policies.
BackRefConsistency ==
  /\ \A pk \in DOMAIN pods : \A rk \in DOMAIN rules :
       rk \in pods[pk].ruleRefs <=> pk \in rules[rk].podRefs
  /\ \A rk \in DOMAIN rules : rules[rk].podRefs \subseteq DOMAIN pods
  /\ \A nk \in DOMAIN nwps : nwps[nk].podRefs \subseteq DOMAIN pods
  /\ \A pk \in DOMAIN pods :
       /\ pods[pk].ruleRefs \subseteq DOMAIN rules
       /\ DOMAIN pods[pk].ingressPolicyRefs \subseteq DOMAIN nwps
       /\ DOMAIN pods[pk].egressPolicyRefs \subseteq DOMAIN nwps
  /\ DOMAIN rules = PolicyRules

\* A policy with a rule is registered; one registered pod contributes to
\* the rule and is referenced by a policy, another registered pod
\* contributes to no rule, and a pod key of the model is unregistered.
BackRefConsistencyWitness ==
  /\ DOMAIN pods # PodKeys
  /\ \E pk \in DOMAIN pods : \E qk \in DOMAIN pods : \E rk \in DOMAIN rules :
       /\ pk \in rules[rk].podRefs
       /\ rk \in pods[pk].ruleRefs
       /\ \E nk \in DOMAIN nwps : pk \in nwps[nk].podRefs
       /\ pods[qk].ruleRefs = {}

-----------------------------------------------------------------------------
(* What an event of one policy leaves of the other policies. *)

\* Controller c2 holds policy nk as the current state does: the policy with
\* its pod set and chains, the rules of its chains, its rules with their
\* contributing pods, and the elements of their sets.
PolicyUntouched(c2, nk) ==
  /\ nk \in DOMAIN c2.nwps
  /\ c2.nwps[nk] = nwps[nk]
  /\ \A d \in Dirs :
       polChainOf(nwps[nk], d) # NoName =>
         /\ polChainOf(nwps[nk], d) \in DOMAIN c2.chains
         /\ c2.chains[polChainOf(nwps[nk], d)] = chains[polChainOf(nwps[nk], d)]
  /\ \A rk \in DOMAIN rules :
       rk[1] = nk =>
         /\ rk \in DOMAIN c2.rules
         /\ c2.rules[rk] = rules[rk]
         /\ \A set \in {rules[rk].PodIPSet, rules[rk].NamedPortSet} \ {NoName} :
              set \in DOMAIN c2.sets /\ c2.sets[set] = sets[set]

\* Controller c2 holds the jumps into policy nk's chains as the current
\* state does.
JumpsUntouched(c2, nk) ==
  \A pk \in DOMAIN pods : \A d \in Dirs :
    nk \in DOMAIN policyRefsOf(pods[pk], d) =>
      LET j == policyRefsOf(pods[pk], d)[nk]
      IN /\ nk \in DOMAIN policyRefsOf(c2.pods[pk], d)
         /\ policyRefsOf(c2.pods[pk], d)[nk] = j
         /\ j.Chain \in DOMAIN c2.chains
         /\ Count(c2.chains[j.Chain], j) = Count(chains[j.Chain], j)

\* The entries of the d verdict map of controller c that jump to chain ch.
VmapEntries(c, d, ch) == {e \in c.sets[vmapOf(d)] : e.Chain = ch}

\* Pod pk is selected in direction d by policy k and by another policy.
SelectedByBoth(pk, k, d) ==
  /\ k \in SelectingPolicies(pk, d)
  /\ SelectingPolicies(pk, d) \ {k} # {}

\* After the deletion of policy k, a pod selected by k and by another policy
\* in direction d has its d-dispatch chain and its verdict-map entries.
DispatchKept(c2, k) ==
  \A pk \in DOMAIN pods : \A d \in Dirs :
    SelectedByBoth(pk, k, d) =>
      /\ podChainOf(c2.pods[pk], d) = podChainOf(pods[pk], d)
      /\ podChainOf(pods[pk], d) \in DOMAIN c2.chains
      /\ VmapEntries(c2, d, podChainOf(pods[pk], d))
           = VmapEntries(Ctrl, d, podChainOf(pods[pk], d))

\* C37. Policy isolation frame: from every reachable state, SetNetworkPolicy
\* on key k, whether it creates, updates or deletes, leaves the chains,
\* rule sets, set elements and contributing pods of every other policy and
\* the jumps into the other policies' chains as they were; and when it
\* deletes k's policy, a pod that k's policy and another policy select in a
\* direction keeps its dispatch chain and verdict-map entries there.
PolicyIsolation ==
  \A k \in PolKeys : \A ev \in PolicyEvents(k) :
    LET c2 == DoPolicy(Ctrl, k, ev)
    IN /\ \A nk \in DOMAIN nwps \ {k} :
            PolicyUntouched(c2, nk) /\ JumpsUntouched(c2, nk)
       /\ (ev = None /\ k \in DOMAIN nwps) => DispatchKept(c2, k)

-----------------------------------------------------------------------------
(* The initial sync. *)

\* C38. Initial-sync liveness: under fair scheduling of the informer
\* callbacks, the worker and main, whatever the interleaving of OnAdd with
\* the worker, the tracker eventually reports synced and a commit is
\* eventually issued.
InitialSyncLiveness == <>(HasSynced /\ commits # <<>>)

-----------------------------------------------------------------------------
(* The end key of an interval. *)

\* The addresses an element pair denotes: from the start key up to, not
\* including, the interval-end key.
PairAddrs(start, end) == {a \in 0..(AddrSpace - 1) : start.Key <= a /\ a < end.Key}

\* C39. Interval end does not wrap: for every range [s, e] of the permitted
\* ranges of an ipBlock rule, the range that ends at the highest address
\* included, the interval-end key emitted is greater than the start key s,
\* and the pair denotes exactly the addresses s..e.
IntervalEndNoWrap ==
  blocksCall # None =>
    LET elems == blocksCall[1].elems
        t == blocksCall[1].permitted
    IN \A i \in DOMAIN elems :
         ~elems[i].IntervalEnd =>
           /\ elems[i + 1].IntervalEnd
           /\ elems[i + 1].Key > elems[i].Key
           /\ elems[i].Key \in DOMAIN t
           /\ PairAddrs(elems[i], elems[i + 1]) = elems[i].Key..t[elems[i].Key]

====
